---- MODULE Spec2Model ----
(***************************************************************************)
(* A model of the uasset codec of src/src/iostore_uasset.rs: the binary    *)
(* decoder and encoder (from_buffer / to_bytes), the text emitter and      *)
(* parser (to_string / from_string), and the pipelines the tests run.      *)
(*                                                                         *)
(* Representation.  A byte is a number in 0..255 and a buffer is a         *)
(* sequence of bytes.  A Rust String is its UTF-8 bytes (which is what a   *)
(* String is), so String::len is Len and as_bytes is the value itself.     *)
(* Fixed-width integers that are only carried (i32, u32, u64, the f32 bit  *)
(* pattern) are kept as their little-endian bytes, so that every width is  *)
(* exact; a length, a count or an index is a number.                       *)
(***************************************************************************)
EXTENDS Integers, Sequences, FiniteSets, TLC

VARIABLES pc, origin, mem, file, dec, enc, text, parsed, enc2, unit

vars == <<pc, origin, mem, file, dec, enc, text, parsed, enc2, unit>>

(***************************************************************************)
(* Sequences                                                               *)
(***************************************************************************)
Zeros(n) == [i \in 1..n |-> 0]

Slice(b, p, n) == SubSeq(b, p + 1, p + n)

\* The concatenation of a sequence of sequences (by halves: the nesting stays shallow).
RECURSIVE Flatten(_)
Flatten(ss) ==
  CASE Len(ss) = 0 -> <<>>
    [] Len(ss) = 1 -> ss[1]
    [] OTHER -> Flatten(SubSeq(ss, 1, Len(ss) \div 2))
                \o Flatten(SubSeq(ss, Len(ss) \div 2 + 1, Len(ss)))

\* The sum of a sequence of integers (by halves).
RECURSIVE SumSeq(_)
SumSeq(ns) ==
  CASE Len(ns) = 0 -> 0
    [] Len(ns) = 1 -> ns[1]
    [] OTHER -> SumSeq(SubSeq(ns, 1, Len(ns) \div 2))
                + SumSeq(SubSeq(ns, Len(ns) \div 2 + 1, Len(ns)))

\* Iterator::position: the 1-based place of the first element equal to x, 0 when absent.
Position(s, x) ==
  IF \A i \in 1..Len(s) : s[i] # x THEN 0
  ELSE CHOOSE i \in 1..Len(s) : s[i] = x /\ \A j \in 1..(i - 1) : s[j] # x

(***************************************************************************)
(* byteorder, little endian                                                *)
(***************************************************************************)
\* A value no buffer, name table or count of the model reaches: a wider
\* number read as usize is cut to it, since every use of such a number is an
\* index or a length that is then out of range all the same.
Huge == 64 * 16777216

U16LE(n) == <<n % 256, (n \div 256) % 256>>

\* write_u32 / write_i32 of a number: \div and % floor, which is two's complement.
U32LE(n) == <<n % 256, (n \div 256) % 256, (n \div 65536) % 256, (n \div 16777216) % 256>>

\* write_u64 of an index
U64LE(n) == U32LE(n) \o <<0, 0, 0, 0>>

\* read_u32 as usize
U32Val(b) ==
  IF b[4] >= 64 THEN Huge ELSE b[1] + 256 * b[2] + 65536 * b[3] + 16777216 * b[4]

\* read_u64 as usize
U64Val(b) ==
  IF \E i \in 5..8 : b[i] # 0 THEN Huge ELSE U32Val(SubSeq(b, 1, 4))

\* read_i32
I32Val(b) ==
  b[1] + 256 * b[2] + 65536 * b[3] + 16777216 * (IF b[4] >= 128 THEN b[4] - 256 ELSE b[4])

(***************************************************************************)
(* UTF-8 and UTF-16 (std::string::String)                                  *)
(***************************************************************************)
IsCont(x) == x >= 128 /\ x <= 191

\* The length of the well-formed UTF-8 sequence that starts at b[i], 0 when there is none.
Utf8Step(b, i) ==
  LET n == Len(b)
      c == b[i]
      c1 == IF i + 1 <= n THEN b[i + 1] ELSE 0
      c2 == IF i + 2 <= n THEN b[i + 2] ELSE 0
      c3 == IF i + 3 <= n THEN b[i + 3] ELSE 0
  IN  CASE c < 128 -> 1
        [] c >= 194 /\ c <= 223 -> IF IsCont(c1) THEN 2 ELSE 0
        [] c = 224 -> IF c1 >= 160 /\ c1 <= 191 /\ IsCont(c2) THEN 3 ELSE 0
        [] c = 237 -> IF c1 >= 128 /\ c1 <= 159 /\ IsCont(c2) THEN 3 ELSE 0
        [] c >= 225 /\ c <= 239 -> IF IsCont(c1) /\ IsCont(c2) THEN 3 ELSE 0
        [] c = 240 -> IF c1 >= 144 /\ c1 <= 191 /\ IsCont(c2) /\ IsCont(c3) THEN 4 ELSE 0
        [] c >= 241 /\ c <= 243 -> IF IsCont(c1) /\ IsCont(c2) /\ IsCont(c3) THEN 4 ELSE 0
        [] c = 244 -> IF c1 >= 128 /\ c1 <= 143 /\ IsCont(c2) /\ IsCont(c3) THEN 4 ELSE 0
        [] OTHER -> 0

\* String::from_utf8(..).is_ok(): every byte that is no continuation byte starts
\* a well-formed sequence, and every continuation byte lies in one.
Utf8Valid(b) ==
  /\ \A i \in 1..Len(b) : ~IsCont(b[i]) => Utf8Step(b, i) > 0
  /\ \A j \in 1..Len(b) :
       IsCont(b[j]) => \E i \in 1..(j - 1) :
                         j - i <= 3 /\ ~IsCont(b[i]) /\ Utf8Step(b, i) > j - i

\* The code point of the sequence of k bytes that starts at b[i].
CodePoint(b, i, k) ==
  CASE k = 1 -> b[i]
    [] k = 2 -> (b[i] - 192) * 64 + (b[i + 1] - 128)
    [] k = 3 -> (b[i] - 224) * 4096 + (b[i + 1] - 128) * 64 + (b[i + 2] - 128)
    [] k = 4 -> (b[i] - 240) * 262144 + (b[i + 1] - 128) * 4096
                + (b[i + 2] - 128) * 64 + (b[i + 3] - 128)

\* The numbers of a finite set of numbers, in increasing order.
Sorted(S) ==
  [j \in 1..Cardinality(S) |-> CHOOSE i \in S : Cardinality({m \in S : m < i}) = j - 1]

\* The places of a String where a character starts.
CharStarts(s) == Sorted({i \in 1..Len(s) : ~IsCont(s[i])})

\* The length of the sequence that the byte c starts in a String (which is
\* well-formed, so that its first byte tells).
Utf8Len(c) == IF c < 128 THEN 1 ELSE IF c < 224 THEN 2 ELSE IF c < 240 THEN 3 ELSE 4

\* The character of a String that starts at place i.
CharAt(s, i) == CodePoint(s, i, Utf8Len(s[i]))

\* str::chars of a String: its code points.
Chars(s) ==
  LET at == CharStarts(s)
  IN  [n \in 1..Len(at) |-> CharAt(s, at[n])]

\* char::encode_utf8
CharUtf8(c) ==
  CASE c < 128 -> <<c>>
    [] c >= 128 /\ c < 2048 -> <<192 + (c \div 64), 128 + (c % 64)>>
    [] c >= 2048 /\ c < 65536 ->
         <<224 + (c \div 4096), 128 + ((c \div 64) % 64), 128 + (c % 64)>>
    [] c >= 65536 ->
         <<240 + (c \div 262144), 128 + ((c \div 4096) % 64), 128 + ((c \div 64) % 64),
           128 + (c % 64)>>

\* Iterator<char>::collect::<String>
FromChars(cs) == Flatten([i \in 1..Len(cs) |-> CharUtf8(cs[i])])

\* char::encode_utf16
CharUtf16(c) ==
  IF c < 65536 THEN <<c>>
  ELSE <<55296 + ((c - 65536) \div 1024), 56320 + ((c - 65536) % 1024)>>

\* str::encode_utf16: the code units of a String.
EncodeUtf16(s) ==
  LET at == CharStarts(s)
  IN  Flatten([n \in 1..Len(at) |-> CharUtf16(CharAt(s, at[n]))])

IsHigh(x) == x >= 55296 /\ x <= 56319

IsLow(x) == x >= 56320 /\ x <= 57343

\* String::from_utf16: <<TRUE, string>> or <<FALSE, <<>>>> on an unpaired surrogate.
FromUtf16(u) ==
  IF \E i \in 1..Len(u) :
       \/ IsHigh(u[i]) /\ (i = Len(u) \/ ~IsLow(u[i + 1]))
       \/ IsLow(u[i]) /\ (i = 1 \/ ~IsHigh(u[i - 1]))
  THEN <<FALSE, <<>>>>
  ELSE LET at == Sorted({i \in 1..Len(u) : ~IsLow(u[i])})
       IN  <<TRUE,
             FromChars([n \in 1..Len(at) |->
                          IF IsHigh(u[at[n]])
                          THEN 65536 + (u[at[n]] - 55296) * 1024 + (u[at[n] + 1] - 56320)
                          ELSE u[at[n]]])>>

(***************************************************************************)
(* The strings the code names                                              *)
(***************************************************************************)
sNone == <<78, 111, 110, 101>>                                               \* "None"
sArrayProperty == <<65, 114, 114, 97, 121, 80, 114, 111, 112, 101, 114, 116, 121>>
sBoolProperty == <<66, 111, 111, 108, 80, 114, 111, 112, 101, 114, 116, 121>>
sByteProperty == <<66, 121, 116, 101, 80, 114, 111, 112, 101, 114, 116, 121>>
sEnumProperty == <<69, 110, 117, 109, 80, 114, 111, 112, 101, 114, 116, 121>>
sFloatProperty == <<70, 108, 111, 97, 116, 80, 114, 111, 112, 101, 114, 116, 121>>
sIntProperty == <<73, 110, 116, 80, 114, 111, 112, 101, 114, 116, 121>>
sMapProperty == <<77, 97, 112, 80, 114, 111, 112, 101, 114, 116, 121>>
sNameProperty == <<78, 97, 109, 101, 80, 114, 111, 112, 101, 114, 116, 121>>
sStrProperty == <<83, 116, 114, 80, 114, 111, 112, 101, 114, 116, 121>>
sStructProperty == <<83, 116, 114, 117, 99, 116, 80, 114, 111, 112, 101, 114, 116, 121>>
sUInt16Property == <<85, 73, 110, 116, 49, 54, 80, 114, 111, 112, 101, 114, 116, 121>>
sUInt32Property == <<85, 73, 110, 116, 51, 50, 80, 114, 111, 112, 101, 114, 116, 121>>

(***************************************************************************)
(* Results.  A decoder returns Ok(value, reader position), Err (an Err the *)
(* caller gets) or Panic (an unwrap, expect, index or panic! that aborts). *)
(* An encoder returns Wrote(returned length, bytes written) or Panic.      *)
(***************************************************************************)
Ok(v, p) == [st |-> "ok", v |-> v, p |-> p]

Err == [st |-> "err", v |-> <<>>, p |-> 0]

Panic == [st |-> "panic", v |-> <<>>, p |-> 0]

\* The most names, array items or map pairs a file of the model declares.
MaxCount == 8

\* A file that declares more than MaxCount of them: not a file of the model.
TooLong == [st |-> "long", v |-> <<>>, p |-> 0]

Wrote(n, out) == [st |-> "ok", n |-> n, out |-> out]

WPanic == [st |-> "panic", n |-> 0, out |-> <<>>]

(***************************************************************************)
(* UObjectSummaryHeader, UObjectSummary                                    *)
(***************************************************************************)
\* i32 / i32 truncates toward zero.
TruncDiv(a, d) == IF a >= 0 THEN a \div d ELSE -((-a) \div d)

\* i32 + i32, in 16-bit halves: <<in range, sum>>.
I32Add(a, b) ==
  LET lo == (a % 65536) + (b % 65536)
      hi == (a \div 65536) + (b \div 65536) + (lo \div 65536)
  IN  IF hi > 32767 \/ hi < -32768 THEN <<FALSE, 0>> ELSE <<TRUE, hi * 65536 + (lo % 65536)>>

\* UObjectSummaryHeader::from_buffer with the pad bytes of the input kept.
UObjectSummaryHeader_from_buffer_pad_kept(b, p) ==
  IF p + 64 > Len(b) THEN Panic
  ELSE Ok([name                   |-> Slice(b, p, 8),
           source_name            |-> Slice(b, p + 8, 8),
           package_flags          |-> Slice(b, p + 16, 4),
           cooked_header_size     |-> Slice(b, p + 20, 4),
           name_map_names_offset  |-> Slice(b, p + 24, 4),
           name_map_names_size    |-> Slice(b, p + 28, 4),
           name_map_hashes_offset |-> Slice(b, p + 32, 4),
           name_map_hashes_size   |-> Slice(b, p + 36, 4),
           import_map_offset      |-> Slice(b, p + 40, 4),
           export_map_offset      |-> Slice(b, p + 44, 4),
           export_bundles_offset  |-> Slice(b, p + 48, 4),
           graph_data_offset      |-> Slice(b, p + 52, 4),
           graph_data_size        |-> Slice(b, p + 56, 4),
           pad                    |-> Slice(b, p + 60, 4)],
          p + 64)

UObjectSummaryHeader_from_buffer(b, p) ==
  IF p + 64 > Len(b) THEN Panic
  ELSE Ok([name                   |-> Slice(b, p, 8),
           source_name            |-> Slice(b, p + 8, 8),
           package_flags          |-> Slice(b, p + 16, 4),
           cooked_header_size     |-> Slice(b, p + 20, 4),
           name_map_names_offset  |-> Slice(b, p + 24, 4),
           name_map_names_size    |-> Slice(b, p + 28, 4),
           name_map_hashes_offset |-> Slice(b, p + 32, 4),
           name_map_hashes_size   |-> Slice(b, p + 36, 4),
           import_map_offset      |-> Slice(b, p + 40, 4),
           export_map_offset      |-> Slice(b, p + 44, 4),
           export_bundles_offset  |-> Slice(b, p + 48, 4),
           graph_data_offset      |-> Slice(b, p + 52, 4),
           graph_data_size        |-> Slice(b, p + 56, 4),
           pad                    |-> Zeros(4)],
          p + 64)

UObjectSummaryHeader_to_bytes(h) ==
  h.name \o h.source_name \o h.package_flags \o h.cooked_header_size
  \o h.name_map_names_offset \o h.name_map_names_size
  \o h.name_map_hashes_offset \o h.name_map_hashes_size
  \o h.import_map_offset \o h.export_map_offset \o h.export_bundles_offset
  \o h.graph_data_offset \o h.graph_data_size \o h.pad

\* An element and then the result of reading the ones after it: Ok of the list
\* with the element first, or what stopped the reading.
Prepended(x, rest) == IF rest.st # "ok" THEN rest ELSE Ok(<<x>> \o rest.v, rest.p)

\* The loop over 0..names_count: a length byte, the bytes, a zero byte.
RECURSIVE ReadNames(_, _, _)
ReadNames(b, p, n) ==
  CASE n = 0 -> Ok(<<>>, p)
    [] n > MaxCount -> TooLong
    [] p + 1 > Len(b) -> Panic
    [] p + 2 + b[p + 1] > Len(b) -> Panic
    [] b[p + 2 + b[p + 1]] # 0 -> Err
    [] ~Utf8Valid(Slice(b, p + 1, b[p + 1])) -> Panic
    [] OTHER -> Prepended(Slice(b, p + 1, b[p + 1]), ReadNames(b, p + 2 + b[p + 1], n - 1))

\* let names_count = header.name_map_hashes_size / 8 - 1
names_count(header) == TruncDiv(I32Val(header.name_map_hashes_size), 8) - 1

\* UObjectSummary::from_buffer once the names are read: the remaining bytes.
SummaryOfNames(b, header, ns) ==
  LET sum == I32Add(I32Val(header.graph_data_offset), I32Val(header.graph_data_size))
  IN  CASE ns.st # "ok" -> ns
        \* an i32 overflow, a negative length, a length before pos: all abort
        [] ~sum[1] \/ sum[2] < ns.p \/ sum[2] > Len(b) -> Panic
        [] OTHER -> Ok([header |-> header, name_map |-> ns.v,
                        remaining_bytes |-> SubSeq(b, ns.p + 1, sum[2])], sum[2])

\* UObjectSummary::from_buffer once the header is read: one byte, the names.
SummaryOfHeader(b, h) ==
  CASE h.st # "ok" -> h
    [] h.p + 1 > Len(b) -> Panic
    \* Vec::with_capacity(names_count as usize) of a negative count: capacity overflow
    [] names_count(h.v) < 0 -> Panic
    [] OTHER -> SummaryOfNames(b, h.v, ReadNames(b, h.p + 1, names_count(h.v)))

UObjectSummary_from_buffer(b, p0) ==
  SummaryOfHeader(b, UObjectSummaryHeader_from_buffer(b, p0))

UObjectSummary_to_bytes(s) ==
  UObjectSummaryHeader_to_bytes(s.header) \o <<0>>
  \o Flatten([i \in 1..Len(s.name_map) |->
               <<Len(s.name_map[i]) % 256>> \o s.name_map[i] \o <<0>>])
  \o s.remaining_bytes

(***************************************************************************)
(* The tree.                                                               *)
(*   header    [name, type, arr_index]            (arr_index: usize, 8 bytes) *)
(*   metadata  [m |-> "Array", item] [m |-> "Bool", b] [m |-> "Byte", e, t]  *)
(*             [m |-> "Enum", s] [m |-> "Map", key, val]                     *)
(*             [m |-> "Struct", data] [m |-> "None"]                         *)
(*   data      [k |-> "Array", items, schema]   schema: <<>> or <<[hdr, an]>> *)
(*             [k |-> "Bool"] [k |-> "Byte", n] [k |-> "Enum", s]            *)
(*             [k |-> "Struct", props] [k |-> "Float", w] [k |-> "String", s] *)
(*             [k |-> "StringUtf16", s] [k |-> "Map", pairs] [k |-> "Name", s] *)
(*             [k |-> "UInt16", w] [k |-> "UInt32", w] [k |-> "Int", w]      *)
(*   property  [header, metadata, data]                                    *)
(*   document  [summary, properties]                                       *)
(***************************************************************************)
MetaNone == [m |-> "None"]

\* UObjectPropertyHeader::from_buffer: Ok(<<header>>, p), or Ok(<<>>, p) for None.
UObjectPropertyHeader_from_buffer(b, p, name_map) ==
  LET name_index == U64Val(Slice(b, p, 8))
      type_index == U64Val(Slice(b, p + 8, 8))
  IN  CASE p + 8 > Len(b) -> Panic
        [] name_index >= Len(name_map) -> Panic
        [] name_map[name_index + 1] = sNone -> Ok(<<>>, p + 8)
        [] p + 16 > Len(b) -> Panic
        [] type_index >= Len(name_map) \/ p + 24 > Len(b) -> Panic
        [] OTHER -> Ok(<<[name      |-> name_map[name_index + 1],
                         type      |-> name_map[type_index + 1],
                         arr_index |-> Slice(b, p + 20, 4) \o Zeros(4)]>>, p + 24)

\* One padding byte, metadata None.
MetaPad(b, p) == IF p + 1 > Len(b) THEN Panic ELSE Ok(MetaNone, p + 1)

UObjectPropertyMetadata_from_buffer(b, p, type, name_map) ==
  CASE type = sArrayProperty ->
         IF p + 9 > Len(b) \/ U64Val(Slice(b, p, 8)) >= Len(name_map) THEN Panic
         ELSE Ok([m |-> "Array", item |-> name_map[U64Val(Slice(b, p, 8)) + 1]], p + 9)
    [] type = sBoolProperty ->
         IF p + 2 > Len(b) THEN Panic ELSE Ok([m |-> "Bool", b |-> b[p + 1] > 0], p + 2)
    [] type = sByteProperty ->
         IF p + 9 > Len(b) THEN Panic
         ELSE Ok([m |-> "Byte", e |-> Slice(b, p, 8), t |-> b[p + 9]], p + 9)
    [] type = sEnumProperty ->
         IF p + 9 > Len(b) \/ U64Val(Slice(b, p, 8)) >= Len(name_map) THEN Panic
         ELSE Ok([m |-> "Enum", s |-> name_map[U64Val(Slice(b, p, 8)) + 1]], p + 9)
    [] type \in {sFloatProperty, sStrProperty, sNameProperty,
                 sUInt16Property, sUInt32Property, sIntProperty} -> MetaPad(b, p)
    [] type = sStructProperty ->
         IF p + 25 > Len(b) THEN Panic ELSE Ok([m |-> "Struct", data |-> Slice(b, p, 25)], p + 25)
    [] type = sMapProperty ->
         IF \/ p + 21 > Len(b)
            \/ U64Val(Slice(b, p, 8)) >= Len(name_map)
            \/ U64Val(Slice(b, p + 8, 8)) >= Len(name_map) THEN Panic
         ELSE Ok([m |-> "Map", key |-> name_map[U64Val(Slice(b, p, 8)) + 1],
                  val |-> name_map[U64Val(Slice(b, p + 8, 8)) + 1]], p + 21)
    [] OTHER -> Ok(MetaNone, p)

\* The n code units of a StringUtf16 and its terminator, read from p: the string.
Utf16OfUnits(b, p, n, s) ==
  CASE b[p + 2 * n - 1] # 0 \/ b[p + 2 * n] # 0 -> Err
    [] ~s[1] -> Panic                                       \* from_utf16(..).unwrap()
    [] OTHER -> Ok([k |-> "StringUtf16", s |-> s[2]], p + 2 * n)

\* The StrProperty arm of UObjectPropertyData::from_buffer, len read at p.
StrOfLen(b, p, len) ==
  CASE len < 0 ->
         \* -len of i32::MIN overflows; Vec::with_capacity of what is left aborts
         IF len <= -Huge \/ -len > Len(b) \/ p + 2 * (-len) > Len(b) THEN Panic
         ELSE Utf16OfUnits(b, p, -len,
                FromUtf16([i \in 1..(-len - 1) |-> b[p + 2 * i - 1] + 256 * b[p + 2 * i]]))
    [] len > 0 ->
         CASE len >= Huge \/ p + len > Len(b) -> Panic
           [] b[p + len] # 0 -> Err
           [] ~Utf8Valid(Slice(b, p, len - 1)) -> Panic
           [] OTHER -> Ok([k |-> "String", s |-> Slice(b, p, len - 1)], p + len)
    [] OTHER -> Ok([k |-> "String", s |-> <<>>], p)

ReadStr(b, p) ==
  IF p + 4 > Len(b) THEN Panic ELSE StrOfLen(b, p + 4, I32Val(Slice(b, p, 4)))

\* name_map[reader.read_u64() as usize].clone()
ReadName(b, p, name_map, kind) ==
  IF p + 8 > Len(b) \/ U64Val(Slice(b, p, 8)) >= Len(name_map) THEN Panic
  ELSE Ok([k |-> kind, s |-> name_map[U64Val(Slice(b, p, 8)) + 1]], p + 8)

\* read_u16, read_u32, read_i32, read_f32: the value, kept as its bytes.
ReadWord(b, p, n, kind) ==
  IF p + n > Len(b) THEN Panic ELSE Ok([k |-> kind, w |-> Slice(b, p, n)], p + n)

RECURSIVE UObjectProperty_from_buffer(_, _, _)
RECURSIVE UObjectPropertyData_from_buffer(_, _, _, _, _)
RECURSIVE ReadProps(_, _, _)
RECURSIVE ReadItems(_, _, _, _, _, _)
RECURSIVE ReadSets(_, _, _, _, _)

\* The loop of ReadProps with r what UObjectProperty::from_buffer returned.
PropsAfter(b, name_map, r) ==
  CASE r.st # "ok" -> r
    [] r.v = <<>> -> Ok(<<>>, r.p)
    [] OTHER -> Prepended(r.v[1], ReadProps(b, r.p, name_map))

\* while let Some(prop) = UObjectProperty::from_buffer(..)? { props.push(prop) }
ReadProps(b, p, name_map) ==
  PropsAfter(b, name_map, UObjectProperty_from_buffer(b, p, name_map))

\* The loop of ReadItems with r the item read, n items still to read after it.
ItemsAfter(b, n, item_type, metadata, name_map, r) ==
  IF r.st # "ok" THEN r
  ELSE Prepended(r.v, ReadItems(b, r.p, n, item_type, metadata, name_map))

\* for _ in 0..len { items.push(from_buffer(reader, item_type, metadata, ..)?) }
ReadItems(b, p, n, item_type, metadata, name_map) ==
  CASE n = 0 -> Ok(<<>>, p)
    [] n > MaxCount -> TooLong
    [] OTHER -> ItemsAfter(b, n - 1, item_type, metadata, name_map,
                  UObjectPropertyData_from_buffer(b, p, item_type, metadata, name_map))

\* The loop of ReadSets with the key and the value read, n pairs still to read.
SetsAfter(b, n, metadata, name_map, key, val) ==
  IF val.st # "ok" THEN val
  ELSE Prepended(<<key.v, val.v>>, ReadSets(b, val.p, n, metadata, name_map))

\* The loop of ReadSets with the key read: the value comes next.
SetsAfterKey(b, n, metadata, name_map, key) ==
  IF key.st # "ok" THEN key
  ELSE SetsAfter(b, n, metadata, name_map, key,
         UObjectPropertyData_from_buffer(b, key.p, metadata.val, metadata, name_map))

\* for _ in 0..arr_size { key, value; sets.push((key, value)) }
ReadSets(b, p, n, metadata, name_map) ==
  CASE n = 0 -> Ok(<<>>, p)
    [] n > MaxCount -> TooLong
    [] OTHER -> SetsAfterKey(b, n - 1, metadata, name_map,
                  UObjectPropertyData_from_buffer(b, p, metadata.key, metadata, name_map))

\* The array name and the 17 bytes after the item header h of a struct array.
SchemaOfHeader(b, name_map, h) ==
  CASE h.st # "ok" \/ h.v = <<>> -> Panic                           \* expect(..)
    [] h.p + 25 > Len(b) -> Panic
    [] U64Val(Slice(b, h.p, 8)) >= Len(name_map) -> Panic
    [] OTHER -> Ok(<<[hdr |-> h.v[1],
                     an  |-> name_map[U64Val(Slice(b, h.p, 8)) + 1]]>>, h.p + 25)

\* The item header, the array name and the 17 bytes of a struct array:
\* Ok(<<[hdr, an]>>, p), or Ok(<<>>, p) when the items are no structs.
ReadSchema(b, p, item_type, name_map) ==
  IF item_type # sStructProperty THEN Ok(<<>>, p)
  ELSE SchemaOfHeader(b, name_map, UObjectPropertyHeader_from_buffer(b, p, name_map))

\* Ok(a Struct of the properties read, p), or what stopped the reading.
AsStruct(props) ==
  IF props.st # "ok" THEN props ELSE Ok([k |-> "Struct", props |-> props.v], props.p)

\* Ok(an Array of the items read, with its schema), or what stopped the reading.
AsArray(schema, items) ==
  IF items.st # "ok" THEN items
  ELSE Ok([k |-> "Array", items |-> items.v, schema |-> schema], items.p)

\* The Array arm with the schema read: the `len` items come next.
ArrayOfSchema(b, len, metadata, name_map, sm) ==
  IF sm.st # "ok" THEN sm
  ELSE AsArray(sm.v, ReadItems(b, sm.p, len, metadata.item, metadata, name_map))

\* Ok(a Map of the pairs read, p), or what stopped the reading.
AsMap(sets) ==
  IF sets.st # "ok" THEN sets ELSE Ok([k |-> "Map", pairs |-> sets.v], sets.p)

UObjectPropertyData_from_buffer(b, p, type, metadata, name_map) ==
  CASE type = sArrayProperty ->
         IF p + 4 > Len(b) \/ metadata.m # "Array" THEN Panic
         ELSE ArrayOfSchema(b, U32Val(Slice(b, p, 4)), metadata, name_map,
                ReadSchema(b, p + 4, metadata.item, name_map))
    [] type = sBoolProperty -> Ok([k |-> "Bool"], p)
    [] type = sByteProperty ->
         IF p + 1 > Len(b) THEN Panic ELSE Ok([k |-> "Byte", n |-> b[p + 1]], p + 1)
    [] type = sEnumProperty -> ReadName(b, p, name_map, "Enum")
    [] type = sStructProperty -> AsStruct(ReadProps(b, p, name_map))
    [] type = sFloatProperty -> ReadWord(b, p, 4, "Float")
    [] type = sStrProperty -> ReadStr(b, p)
    [] type = sMapProperty ->
         IF metadata.m # "Map" \/ p + 4 > Len(b) THEN Panic
         ELSE AsMap(ReadSets(b, p + 4, U32Val(Slice(b, p, 4)), metadata, name_map))
    [] type = sNameProperty -> ReadName(b, p, name_map, "Name")
    [] type = sUInt16Property -> ReadWord(b, p, 2, "UInt16")
    [] type = sUInt32Property -> ReadWord(b, p, 4, "UInt32")
    [] type = sIntProperty -> ReadWord(b, p, 4, "Int")
    [] OTHER -> \* an unhandled type: one byte, then a property stream
         IF p + 1 > Len(b) THEN Panic ELSE AsStruct(ReadProps(b, p + 1, name_map))

\* UObjectProperty::from_buffer with everything read: the property.
PropertyOfData(header, metadata, data) ==
  IF data.st # "ok" THEN data
  ELSE Ok(<<[header |-> header, metadata |-> metadata, data |-> data.v]>>, data.p)

\* UObjectProperty::from_buffer with the metadata read: the data comes next.
PropertyOfMetadata(b, name_map, header, metadata) ==
  IF metadata.st # "ok" THEN metadata
  ELSE PropertyOfData(header, metadata.v,
         UObjectPropertyData_from_buffer(b, metadata.p, header.type, metadata.v, name_map))

\* UObjectProperty::from_buffer with the header read: the metadata comes next.
PropertyOfHeader(b, name_map, h) ==
  IF h.st # "ok" \/ h.v = <<>> THEN h
  ELSE PropertyOfMetadata(b, name_map, h.v[1],
         UObjectPropertyMetadata_from_buffer(b, h.p, h.v[1].type, name_map))

\* UObjectProperty::from_buffer: Ok(<<property>>, p), or Ok(<<>>, p) at None.
UObjectProperty_from_buffer(b, p, name_map) ==
  PropertyOfHeader(b, name_map, UObjectPropertyHeader_from_buffer(b, p, name_map))

\* IoUObject::from_buffer with the summary read: the properties are all that follow.
DocOfProperties(summary, properties) ==
  IF properties.st # "ok" THEN properties
  ELSE Ok([summary |-> summary, properties |-> properties.v], properties.p)

\* IoUObject::from_buffer with the summary read.
DocOfSummary(b, summary) ==
  IF summary.st # "ok" THEN summary
  ELSE DocOfProperties(summary.v, ReadProps(b, summary.p, summary.v.name_map))

IoUObject_from_buffer(b) == DocOfSummary(b, UObjectSummary_from_buffer(b, 0))

\* UObjectPropertyHeader::to_bytes with the last place of a string in the name
\* table written as its index.
UObjectPropertyHeader_to_bytes_last_index(h, name_map, data_size) ==
  LET name_index == IF Position(name_map, h.name) = 0 THEN 0
                    ELSE CHOOSE i \in 1..Len(name_map) :
                           name_map[i] = h.name /\ \A j \in (i + 1)..Len(name_map) : name_map[j] # h.name
      type_index == IF Position(name_map, h.type) = 0 THEN 0
                    ELSE CHOOSE i \in 1..Len(name_map) :
                           name_map[i] = h.type /\ \A j \in (i + 1)..Len(name_map) : name_map[j] # h.type
  IN  IF name_index = 0 THEN [st |-> "panic", out |-> <<>>, more |-> FALSE]
      ELSE IF h.name = sNone
           THEN [st |-> "ok", out |-> U64LE(name_index - 1), more |-> FALSE]
      ELSE IF type_index = 0 THEN [st |-> "panic", out |-> <<>>, more |-> FALSE]
      ELSE [st |-> "ok",
            out |-> U64LE(name_index - 1) \o U64LE(type_index - 1)
                    \o U32LE(data_size) \o SubSeq(h.arr_index, 1, 4),
            more |-> TRUE]

(***************************************************************************)
(* to_bytes                                                                *)
(***************************************************************************)
\* UObjectPropertyHeader::to_bytes: what it writes, and the bool it returns.
UObjectPropertyHeader_to_bytes(h, name_map, data_size) ==
  LET name_index == Position(name_map, h.name)
      type_index == Position(name_map, h.type)
  IN  IF name_index = 0 THEN [st |-> "panic", out |-> <<>>, more |-> FALSE]
      ELSE IF h.name = sNone
           THEN [st |-> "ok", out |-> U64LE(name_index - 1), more |-> FALSE]
      ELSE IF type_index = 0 THEN [st |-> "panic", out |-> <<>>, more |-> FALSE]
      ELSE [st |-> "ok",
            out |-> U64LE(name_index - 1) \o U64LE(type_index - 1)
                    \o U32LE(data_size) \o SubSeq(h.arr_index, 1, 4),
            more |-> TRUE]

\* UObjectPropertyHeader::byte_len
byte_len == 8 + 8 + 4 + 4

UObjectPropertyMetadata_to_bytes(metadata, name_map) ==
  CASE metadata.m = "Array" ->
         IF Position(name_map, metadata.item) = 0 THEN WPanic
         ELSE Wrote(8 + 1, U64LE(Position(name_map, metadata.item) - 1) \o <<0>>)
    [] metadata.m = "Bool" -> Wrote(2, <<IF metadata.b THEN 1 ELSE 0, 0>>)
    [] metadata.m = "Byte" -> Wrote(8 + 1, metadata.e \o <<metadata.t>>)
    [] metadata.m = "Enum" ->
         IF Position(name_map, metadata.s) = 0 THEN WPanic
         ELSE Wrote(8 + 1, U64LE(Position(name_map, metadata.s) - 1) \o <<0>>)
    [] metadata.m = "Map" ->
         IF Position(name_map, metadata.key) = 0 \/ Position(name_map, metadata.val) = 0
         THEN WPanic
         ELSE Wrote(8 + 8 + 1 + 4,
                    U64LE(Position(name_map, metadata.key) - 1)
                    \o U64LE(Position(name_map, metadata.val) - 1) \o <<0>> \o U32LE(0))
    [] metadata.m = "Struct" -> Wrote(Len(metadata.data), metadata.data)
    [] metadata.m = "None" -> Wrote(1, <<0>>)

\* WriteName with the 1-based position written as the index.
WriteName_one_based(name_map, val) ==
  IF Position(name_map, val) = 0 THEN WPanic ELSE Wrote(8, U64LE(Position(name_map, val)))

\* write_u64(name_map.iter().position(|n| n == val).unwrap_or_else(|| panic!(..)))
WriteName(name_map, val) ==
  IF Position(name_map, val) = 0 THEN WPanic ELSE Wrote(8, U64LE(Position(name_map, val) - 1))

\* StringToBytes with the termination byte left out of the length.
StringToBytes_short_length(val) ==
  IF val = <<>> THEN Wrote(4 + 0, U32LE(0))
  ELSE Wrote(4 + (Len(val) + 1), U32LE(Len(val)) \o val \o <<0>>)

\* The String arm of UObjectPropertyData::to_bytes.
StringToBytes(val) ==
  IF val = <<>> THEN Wrote(4 + 0, U32LE(0))
  ELSE Wrote(4 + (Len(val) + 1), U32LE(Len(val) + 1) \o val \o <<0>>)

\* The StringUtf16 arm with the code units at hand: the negated count of the
\* units and the terminator, the units, the terminator.
Utf16ToBytes(bytes) ==
  Wrote(4 + ((Len(bytes) + 1) * 2),
        U32LE(-(Len(bytes) + 1)) \o Flatten([i \in 1..Len(bytes) |-> U16LE(bytes[i])])
        \o U16LE(0))

\* The StringUtf16 arm of UObjectPropertyData::to_bytes.
StringUtf16ToBytes(val) == Utf16ToBytes(EncodeUtf16(val))

\* The 17 bytes written after the array name of a struct array.
additional_unknown_data == Zeros(17)

\* MapSizeBase as the size of the count alone.
MapSizeBase_count_only == Len(U32LE(0))

\* What the Map arm of to_bytes starts its size from.
MapSizeBase == 8

\* What two writes one after the other wrote, or WPanic when one of them panicked.
Both(first, second) ==
  IF first.st # "ok" \/ second.st # "ok" THEN WPanic
  ELSE Wrote(first.n + second.n, first.out \o second.out)

RECURSIVE UObjectPropertyData_to_bytes(_, _)
RECURSIVE UObjectProperty_to_bytes(_, _)
RECURSIVE ItemsToBytes(_, _, _)
RECURSIVE PropsToBytes(_, _, _)
RECURSIVE SetsToBytes(_, _, _)
RECURSIVE SetsToBytes_value_first(_, _, _)

\* for i in items { i.to_bytes(&mut data, name_map); }
ItemsToBytes(items, i, name_map) ==
  IF i > Len(items) THEN Wrote(0, <<>>)
  ELSE Both(UObjectPropertyData_to_bytes(items[i], name_map),
            ItemsToBytes(items, i + 1, name_map))

\* for v in val { len += v.to_bytes(writer, name_map); }
PropsToBytes(props, i, name_map) ==
  IF i > Len(props) THEN Wrote(0, <<>>)
  ELSE Both(UObjectProperty_to_bytes(props[i], name_map),
            PropsToBytes(props, i + 1, name_map))

\* SetsToBytes with the value of every pair written before its key.
SetsToBytes_value_first(pairs, i, name_map) ==
  IF i > Len(pairs) THEN Wrote(0, <<>>)
  ELSE Both(Both(UObjectPropertyData_to_bytes(pairs[i][2], name_map),
                 UObjectPropertyData_to_bytes(pairs[i][1], name_map)),
            SetsToBytes_value_first(pairs, i + 1, name_map))

\* for v in val { size += v.0.to_bytes(..); size += v.1.to_bytes(..); }
SetsToBytes(pairs, i, name_map) ==
  IF i > Len(pairs) THEN Wrote(0, <<>>)
  ELSE Both(Both(UObjectPropertyData_to_bytes(pairs[i][1], name_map),
                 UObjectPropertyData_to_bytes(pairs[i][2], name_map)),
            SetsToBytes(pairs, i + 1, name_map))

\* The Array arm with the items written to `data`: the count, the schema, the items.
ArrayOfItems(d, name_map, data) ==
  LET item_schema == UObjectPropertyHeader_to_bytes(d.schema[1].hdr, name_map, Len(data.out))
      array_name_index == Position(name_map, d.schema[1].an)
  IN  CASE data.st # "ok" -> WPanic
        [] d.schema = <<>> -> Wrote(4 + Len(data.out), U32LE(Len(d.items)) \o data.out)
        [] item_schema.st # "ok" \/ array_name_index = 0 -> WPanic
        [] OTHER -> Wrote(4 + byte_len + 8 + 17 + Len(data.out),
                          U32LE(Len(d.items)) \o item_schema.out
                          \o U64LE(array_name_index - 1) \o additional_unknown_data
                          \o data.out)

\* The Array arm of UObjectPropertyData::to_bytes.
ArrayToBytes(d, name_map) == ArrayOfItems(d, name_map, ItemsToBytes(d.items, 1, name_map))

\* The Struct arm with the properties written: the index of None ends them.
StructOfProps(name_map, val) ==
  IF val.st # "ok" \/ Position(name_map, sNone) = 0 THEN WPanic
  ELSE Wrote(val.n + 8, val.out \o U64LE(Position(name_map, sNone) - 1))

\* The Struct arm of UObjectPropertyData::to_bytes.
StructToBytes(d, name_map) == StructOfProps(name_map, PropsToBytes(d.props, 1, name_map))

\* The Map arm with the pairs written: the count before them.
MapOfSets(d, sets) ==
  IF sets.st # "ok" THEN WPanic
  ELSE Wrote(MapSizeBase + sets.n, U32LE(Len(d.pairs)) \o sets.out)

\* The Map arm of UObjectPropertyData::to_bytes.
MapToBytes(d, name_map) == MapOfSets(d, SetsToBytes(d.pairs, 1, name_map))

UObjectPropertyData_to_bytes(d, name_map) ==
  CASE d.k = "Array" -> ArrayToBytes(d, name_map)
    [] d.k = "Bool" -> Wrote(0, <<>>)
    [] d.k = "Byte" -> Wrote(1, <<d.n>>)
    [] d.k = "Enum" -> WriteName(name_map, d.s)
    [] d.k = "Struct" -> StructToBytes(d, name_map)
    [] d.k = "Float" -> Wrote(4, d.w)
    [] d.k = "String" -> StringToBytes(d.s)
    [] d.k = "StringUtf16" -> StringUtf16ToBytes(d.s)
    [] d.k = "Map" -> MapToBytes(d, name_map)
    [] d.k = "Name" -> WriteName(name_map, d.s)
    [] d.k = "UInt16" -> Wrote(2, d.w)
    [] d.k \in {"UInt32", "Int"} -> Wrote(4, d.w)

\* What UObjectProperty::to_bytes returns when the header ended the stream.
NoneHeaderLen == byte_len

\* PropertyOfBytes with the metadata and the data written whatever the header returned.
PropertyOfBytes_none_in_full(prop, name_map, data) ==
  LET h == UObjectPropertyHeader_to_bytes(prop.header, name_map, data.n)
      meta == UObjectPropertyMetadata_to_bytes(prop.metadata, name_map)
  IN  IF data.st # "ok" \/ h.st # "ok" \/ meta.st # "ok" THEN WPanic
      ELSE Wrote(byte_len + Len(data.out) + meta.n, h.out \o meta.out \o data.out)

\* UObjectProperty::to_bytes with the data written to `data`: the header with
\* the data's size, the metadata, the data.
PropertyOfBytes(prop, name_map, data) ==
  LET h == UObjectPropertyHeader_to_bytes(prop.header, name_map, data.n)
      meta == UObjectPropertyMetadata_to_bytes(prop.metadata, name_map)
  IN  CASE data.st # "ok" -> WPanic
        [] h.st # "ok" -> WPanic
        [] ~h.more -> Wrote(NoneHeaderLen, h.out)
        [] meta.st # "ok" -> WPanic
        [] OTHER -> Wrote(byte_len + Len(data.out) + meta.n, h.out \o meta.out \o data.out)

UObjectProperty_to_bytes(prop, name_map) ==
  PropertyOfBytes(prop, name_map, UObjectPropertyData_to_bytes(prop.data, name_map))

\* Trailer with no byte written after the properties.
Trailer_absent == <<>>

\* The four bytes written after the properties.
Trailer == Zeros(4)

\* IoUObject::to_bytes with the properties written: the summary before them,
\* the index of None and the trailer after them.
DocOfBytes(doc, props) ==
  LET none_index == Position(doc.summary.name_map, sNone)
      summary_bytes == UObjectSummary_to_bytes(doc.summary)
      properties_bytes == props.out \o U64LE(none_index - 1)
  IN  IF props.st # "ok" \/ none_index = 0 THEN WPanic
      ELSE Wrote(Len(summary_bytes) + Len(properties_bytes) + 4,
                 summary_bytes \o properties_bytes \o Trailer)

IoUObject_to_bytes(doc) ==
  DocOfBytes(doc, PropsToBytes(doc.properties, 1, doc.summary.name_map))

(***************************************************************************)
(* str: the operations of std that the text form uses.  A line or a value  *)
(* is a String, so they work on well-formed UTF-8.                         *)
(***************************************************************************)
\* char::is_whitespace: the White_Space code points.
IsWhitespace(c) ==
  \/ c \in {9, 10, 11, 12, 13, 32, 133, 160, 5760, 8232, 8233, 8239, 8287, 12288}
  \/ c >= 8192 /\ c <= 8202

\* The place where the character that holds the byte s[i] starts.
CharStart(s, i) ==
  CHOOSE j \in (IF i > 3 THEN i - 3 ELSE 1)..i :
    ~IsCont(s[j]) /\ \A m \in (j + 1)..i : IsCont(s[m])

\* The byte s[i] is of a character that is no whitespace.
InWord(s, i) == ~IsWhitespace(CharAt(s, CharStart(s, i)))

\* str::trim: without the whitespace characters at both ends.
Trim(s) ==
  LET kept == {i \in 1..Len(s) : InWord(s, i)}
  IN  IF kept = {} THEN <<>>
      ELSE SubSeq(s, CHOOSE i \in kept : \A j \in kept : i <= j,
                     CHOOSE i \in kept : \A j \in kept : i >= j)

\* str::split_whitespace: the maximal runs of characters that are no whitespace.
SplitWhitespace(s) ==
  LET first == Sorted({i \in 1..Len(s) : InWord(s, i) /\ (i = 1 \/ ~InWord(s, i - 1))})
      last == Sorted({i \in 1..Len(s) : InWord(s, i) /\ (i = Len(s) \/ ~InWord(s, i + 1))})
  IN  [j \in 1..Len(first) |-> SubSeq(s, first[j], last[j])]

\* str::starts_with, str::ends_with
StartsWith(s, t) == Len(s) >= Len(t) /\ SubSeq(s, 1, Len(t)) = t

EndsWith(s, t) == Len(s) >= Len(t) /\ SubSeq(s, Len(s) - Len(t) + 1, Len(s)) = t

\* str::split_once at an ASCII character: [found, before, after].
SplitOnce(s, c) ==
  LET i == Position(s, c)
  IN  IF i = 0 THEN [found |-> FALSE, before |-> <<>>, after |-> <<>>]
      ELSE [found |-> TRUE, before |-> SubSeq(s, 1, i - 1), after |-> SubSeq(s, i + 1, Len(s))]

\* chars().take_while(|c| *c != x): up to the first x, all of s when there is none.
TakeWhileNot(s, x) ==
  IF Position(s, x) = 0 THEN s ELSE SubSeq(s, 1, Position(s, x) - 1)

\* " ".repeat(n)
Spaces(n) == [i \in 1..n |-> 32]

\* str::replace of a one-byte pattern.
ReplaceByte(s, from, to) ==
  Flatten([i \in 1..Len(s) |-> IF s[i] = from THEN to ELSE <<s[i]>>])

\* str::replace of a pattern of two different ASCII characters (matches cannot overlap).
ReplacePair(s, c1, c2, to) ==
  Flatten([i \in 1..Len(s) |->
    CASE s[i] = c1 /\ i < Len(s) /\ s[i + 1] = c2 -> to
      [] s[i] = c2 /\ i > 1 /\ s[i - 1] = c1 -> <<>>
      [] OTHER -> <<s[i]>>])

\* str::replace of a doubled ASCII character c: the matches are found left to
\* right, so in a run of c they start at the run's 1st, 3rd, 5th.. character.
ReplaceDouble(s, c, to) ==
  LET RunStart(i) == CHOOSE j \in 1..i :
                       /\ \A m \in j..i : s[m] = c
                       /\ j = 1 \/ s[j - 1] # c
      Starts(i) == s[i] = c /\ i < Len(s) /\ s[i + 1] = c /\ (i - RunStart(i)) % 2 = 0
  IN  Flatten([i \in 1..Len(s) |->
        CASE Starts(i) -> to
          [] i > 1 /\ s[i] = c /\ Starts(i - 1) -> <<>>
          [] OTHER -> <<s[i]>>])

(***************************************************************************)
(* Integers as text: Display, {:x}, str::parse and from_str_radix.  A value *)
(* is its little-endian bytes; the arithmetic is done in limbs so that no   *)
(* intermediate value leaves the 32-bit range.                              *)
(***************************************************************************)
\* 256^k for k = 0..7, in four limbs of five decimal digits, lowest first.
Pow256 ==
  <<<<1, 0, 0, 0>>,
    <<256, 0, 0, 0>>,
    <<65536, 0, 0, 0>>,
    <<77216, 167, 0, 0>>,
    <<67296, 42949, 0, 0>>,
    <<27776, 95116, 109, 0>>,
    <<10656, 49767, 28147, 0>>,
    <<27936, 40379, 5759, 72>>>>

\* 10^k for k = 0..19, in eight bytes, lowest first.
Pow10 ==
  <<<<1, 0, 0, 0, 0, 0, 0, 0>>,
    <<10, 0, 0, 0, 0, 0, 0, 0>>,
    <<100, 0, 0, 0, 0, 0, 0, 0>>,
    <<232, 3, 0, 0, 0, 0, 0, 0>>,
    <<16, 39, 0, 0, 0, 0, 0, 0>>,
    <<160, 134, 1, 0, 0, 0, 0, 0>>,
    <<64, 66, 15, 0, 0, 0, 0, 0>>,
    <<128, 150, 152, 0, 0, 0, 0, 0>>,
    <<0, 225, 245, 5, 0, 0, 0, 0>>,
    <<0, 202, 154, 59, 0, 0, 0, 0>>,
    <<0, 228, 11, 84, 2, 0, 0, 0>>,
    <<0, 232, 118, 72, 23, 0, 0, 0>>,
    <<0, 16, 165, 212, 232, 0, 0, 0>>,
    <<0, 160, 114, 78, 24, 9, 0, 0>>,
    <<0, 64, 122, 16, 243, 90, 0, 0>>,
    <<0, 128, 198, 164, 126, 141, 3, 0>>,
    <<0, 0, 193, 111, 242, 134, 35, 0>>,
    <<0, 0, 138, 93, 120, 69, 99, 1>>,
    <<0, 0, 100, 167, 179, 182, 224, 13>>,
    <<0, 0, 232, 137, 4, 35, 199, 138>>>>

\* Without the leading elements equal to z (the last element is kept).
StripLeading(d, z) ==
  IF \A i \in 1..Len(d) : d[i] = z THEN SubSeq(d, Len(d), Len(d))
  ELSE SubSeq(d, CHOOSE i \in 1..Len(d) : d[i] # z /\ \A j \in 1..(i - 1) : d[j] = z, Len(d))

\* The digits in base `base`, lowest first, of the number whose columns are
\* cols (lowest first, each a sum that may pass the base), and after them
\* what is carried out of the last column.
RECURSIVE Carried(_, _, _)
Carried(cols, base, carry) ==
  IF cols = <<>> THEN <<carry>>
  ELSE <<(cols[1] + carry) % base>>
       \o Carried(Tail(cols), base, (cols[1] + carry) \div base)

\* Display of an unsigned integer of at most 8 bytes: decimal, no leading zeros.
DisplayUnsigned(b) ==
  LET limb == Carried([j \in 1..4 |-> SumSeq([i \in 1..Len(b) |-> b[i] * Pow256[i][j]])],
                      100000, 0)
      p == <<10000, 1000, 100, 10, 1>>
  IN  StripLeading([i \in 1..20 |->
                      48 + ((limb[4 - (i - 1) \div 5] \div p[((i - 1) % 5) + 1]) % 10)], 48)

\* The two's complement of a 4-byte value.
Negate32(b) ==
  LET t1 == (255 - b[1]) + 1
      t2 == (255 - b[2]) + t1 \div 256
      t3 == (255 - b[3]) + t2 \div 256
      t4 == (255 - b[4]) + t3 \div 256
  IN  <<t1 % 256, t2 % 256, t3 % 256, t4 % 256>>

\* Display of an i32.
DisplayI32(b) ==
  IF b[4] >= 128 THEN <<45>> \o DisplayUnsigned(Negate32(b)) ELSE DisplayUnsigned(b)

\* {:x} of an unsigned integer: lower-case hexadecimal, no leading zeros.
LowerHex(b) ==
  LET n == Len(b)
      Nibble(i) == IF i % 2 = 1 THEN b[n - (i - 1) \div 2] \div 16 ELSE b[n - (i - 1) \div 2] % 16
      v == StripLeading([k \in 1..(2 * n) |-> Nibble(k)], 0)
  IN  [i \in 1..Len(v) |-> IF v[i] < 10 THEN 48 + v[i] ELSE 87 + v[i]]

IsDigit(c) == c >= 48 /\ c <= 57

\* char::to_digit(16): 0..15, or 16 for a character that is no hexadecimal digit.
HexVal(c) ==
  CASE c >= 48 /\ c <= 57 -> c - 48
    [] c >= 97 /\ c <= 102 -> c - 87
    [] c >= 65 /\ c <= 70 -> c - 55
    [] OTHER -> 16

\* The 8 bytes of the decimal digits d, or <<>> when the value is 2^64 or more.
DecimalValue(d) ==
  LET z == StripLeading(d, 48)
      n == Len(z)
      v == Carried([j \in 1..8 |-> SumSeq([i \in 1..n |-> (z[i] - 48) * Pow10[n - i + 1][j]])],
                   256, 0)
  IN  IF n > 20 \/ v[9] > 0 THEN <<>> ELSE SubSeq(v, 1, 8)

\* The 8 bytes of the hexadecimal digits d, or <<>> when the value is 2^64 or more.
HexValue(d) ==
  LET z == StripLeading([i \in 1..Len(d) |-> HexVal(d[i])], 0)
      n == Len(z)
      Nibble(k) == IF k <= n THEN z[n + 1 - k] ELSE 0       \* k = 1 is the lowest
  IN  IF n > 16 THEN <<>> ELSE [i \in 1..8 |-> Nibble(2 * i - 1) + 16 * Nibble(2 * i)]

\* The first `width` bytes of the value v, or <<>> when it is <<>> or does not fit them.
Narrowed(v, width) ==
  CASE v = <<>> -> <<>>
    [] \E i \in (width + 1)..8 : v[i] # 0 -> <<>>
    [] OTHER -> SubSeq(v, 1, width)

\* str::parse::<u16 / u32 / u64 / usize> and from_str_radix(.., 16) of the
\* unsigned types: an optional '+', then digits; the value in `width` bytes,
\* or <<>> for what the parse refuses (no digit, a foreign character, overflow).
ParseUnsigned(s, width, radix) ==
  LET body == IF Len(s) > 0 /\ s[1] = 43 THEN SubSeq(s, 2, Len(s)) ELSE s
  IN  CASE Len(body) = 0 -> <<>>
        [] radix = 10 /\ \E i \in 1..Len(body) : ~IsDigit(body[i]) -> <<>>
        [] radix = 16 /\ \E i \in 1..Len(body) : HexVal(body[i]) = 16 -> <<>>
        [] OTHER -> Narrowed(IF radix = 16 THEN HexValue(body) ELSE DecimalValue(body), width)

\* The i32 of the magnitude `low` (4 bytes, or <<>>) and a sign, or <<>> out of range.
Signed(low, minus) ==
  CASE low = <<>> -> <<>>
    [] minus -> IF low[4] < 128 \/ low = <<0, 0, 0, 128>> THEN Negate32(low) ELSE <<>>
    [] OTHER -> IF low[4] < 128 THEN low ELSE <<>>

\* str::parse::<i32>: an optional sign, then digits; 4 bytes, or <<>>.
ParseI32(s) ==
  LET body == IF Len(s) > 0 /\ s[1] \in {43, 45} THEN SubSeq(s, 2, Len(s)) ELSE s
  IN  CASE Len(body) = 0 -> <<>>
        [] \E i \in 1..Len(body) : ~IsDigit(body[i]) -> <<>>
        [] OTHER -> Signed(Narrowed(DecimalValue(body), 4), s[1] = 45)

\* str::parse::<bool>: <<TRUE, value>>, or <<FALSE, FALSE>>.
ParseBool(s) ==
  CASE s = <<116, 114, 117, 101>> -> <<TRUE, TRUE>>
    [] s = <<102, 97, 108, 115, 101>> -> <<TRUE, FALSE>>
    [] OTHER -> <<FALSE, FALSE>>

(***************************************************************************)
(* f32 as text.  Display writes the shortest decimal that reads back as    *)
(* the same value, and NaN for every NaN; parse reads a decimal, inf,      *)
(* infinity or nan (in any case, with an optional sign).  The model knows  *)
(* the texts of the values of F32Shown; other decimals are beyond it.      *)
(***************************************************************************)
F32Shown ==
  <<[w |-> <<0, 0, 0, 0>>,    s |-> <<48>>],
    [w |-> <<0, 0, 128, 63>>, s |-> <<49>>],
    [w |-> <<0, 0, 192, 63>>, s |-> <<49, 46, 53>>],
    [w |-> <<205, 204, 204, 61>>, s |-> <<48, 46, 49>>],
    [w |-> <<0, 0, 64, 67>>,  s |-> <<49, 57, 50>>],
    [w |-> <<0, 0, 128, 127>>, s |-> <<105, 110, 102>>]>>

F32IsNaN(w) == w[4] % 128 = 127 /\ w[3] >= 128 /\ (w[3] > 128 \/ w[2] > 0 \/ w[1] > 0)

\* format!("{val:.}"): the text, or <<>> for a value beyond the model.
DisplayF32(w) ==
  LET pos == <<w[1], w[2], w[3], w[4] % 128>>
      hit == {i \in 1..Len(F32Shown) : F32Shown[i].w = pos}
  IN  CASE F32IsNaN(w) -> <<78, 97, 78>>
        [] hit = {} -> <<>>
        [] OTHER -> (IF w[4] >= 128 THEN <<45>> ELSE <<>>) \o F32Shown[CHOOSE i \in hit : TRUE].s

ToLower(s) == [i \in 1..Len(s) |-> IF s[i] >= 65 /\ s[i] <= 90 THEN s[i] + 32 ELSE s[i]]

\* The grammar of a decimal (in lower case): digits with at most one point and
\* at least one digit, then optionally e, an optional sign and digits.
IsDecimal(s) ==
  LET e == IF Position(s, 101) = 0 THEN Len(s) + 1 ELSE Position(s, 101)
      mant == SubSeq(s, 1, e - 1)
      exp == SubSeq(s, e + 1, Len(s))
      digs == IF Len(exp) > 0 /\ exp[1] \in {43, 45} THEN SubSeq(exp, 2, Len(exp)) ELSE exp
  IN  /\ \E i \in 1..Len(mant) : IsDigit(mant[i])
      /\ \A i \in 1..Len(mant) : IsDigit(mant[i]) \/ mant[i] = 46
      /\ Cardinality({i \in 1..Len(mant) : mant[i] = 46}) <= 1
      /\ e <= Len(s) => Len(digs) > 0 /\ \A i \in 1..Len(digs) : IsDigit(digs[i])

\* The f32 of a text without its sign, in lower case; top is the sign bit.
F32Of(top, body) ==
  LET hit == {i \in 1..Len(F32Shown) : F32Shown[i].s = body}
      With(w) == [st |-> "ok", w |-> <<w[1], w[2], w[3], w[4] + top>>]
  IN  CASE body = <<110, 97, 110>> -> With(<<0, 0, 192, 127>>)
        [] body = <<105, 110, 102, 105, 110, 105, 116, 121>> -> With(<<0, 0, 128, 127>>)
        [] hit # {} -> With(F32Shown[CHOOSE i \in hit : TRUE].w)
        [] IsDecimal(body) -> [st |-> "beyond", w |-> <<>>]
        [] OTHER -> [st |-> "err", w |-> <<>>]

\* str::parse::<f32>: [st |-> "ok", w |-> bits], "err", or "beyond" for a
\* decimal whose value the model does not know.
ParseF32(s) ==
  IF Len(s) > 0 /\ s[1] \in {43, 45}
  THEN F32Of(IF s[1] = 45 THEN 128 ELSE 0, ToLower(SubSeq(s, 2, Len(s))))
  ELSE F32Of(0, ToLower(s))

(***************************************************************************)
(* base64::prelude::BASE64_STANDARD: the standard alphabet, '=' padding    *)
(* written and required, no stray bits in the last character.              *)
(***************************************************************************)
Base64Alphabet == <<65, 66, 67, 68, 69, 70, 71, 72, 73, 74, 75, 76, 77, 78, 79, 80, 81, 82, 83, 84, 85, 86, 87, 88, 89, 90, 97, 98, 99, 100, 101, 102, 103, 104, 105, 106, 107, 108, 109, 110, 111, 112, 113, 114, 115, 116, 117, 118, 119, 120, 121, 122, 48, 49, 50, 51, 52, 53, 54, 55, 56, 57, 43, 47>>

Base64Encode(b) ==
  LET n == Len(b)
      At(i) == IF i <= n THEN b[i] ELSE 0
      Sextet(g, k) ==
        CASE k = 0 -> At(3 * g + 1) \div 4
          [] k = 1 -> (At(3 * g + 1) % 4) * 16 + At(3 * g + 2) \div 16
          [] k = 2 -> (At(3 * g + 2) % 16) * 4 + At(3 * g + 3) \div 64
          [] k = 3 -> At(3 * g + 3) % 64
  IN  [j \in 1..(4 * ((n + 2) \div 3)) |->
         LET g == (j - 1) \div 4
             k == (j - 1) % 4
         IN  IF 3 * g + k > n THEN 61 ELSE Base64Alphabet[Sextet(g, k) + 1]]

\* The place of a character in the alphabet, 0..63, or 64 for a character outside it.
Base64Value(c) ==
  CASE c >= 65 /\ c <= 90 -> c - 65
    [] c >= 97 /\ c <= 122 -> c - 71
    [] c >= 48 /\ c <= 57 -> c + 4
    [] c = 43 -> 62
    [] c = 47 -> 63
    [] OTHER -> 64

\* Engine::decode: <<TRUE, bytes>>, or <<FALSE, <<>>>> for an Err.
Base64Decode(s) ==
  LET n == Len(s)
      pad == IF n >= 2 /\ s[n] = 61 /\ s[n - 1] = 61 THEN 2
             ELSE IF n >= 1 /\ s[n] = 61 THEN 1 ELSE 0
      Val(i) == IF i <= n - pad THEN Base64Value(s[i]) ELSE 0
      Byte(g, k) ==
        CASE k = 1 -> Val(4 * g + 1) * 4 + Val(4 * g + 2) \div 16
          [] k = 2 -> (Val(4 * g + 2) % 16) * 16 + Val(4 * g + 3) \div 4
          [] k = 3 -> (Val(4 * g + 3) % 4) * 64 + Val(4 * g + 4)
  IN  CASE n % 4 # 0 -> <<FALSE, <<>>>>
        [] \E i \in 1..(n - pad) : Base64Value(s[i]) = 64 -> <<FALSE, <<>>>>
        [] pad = 1 /\ Val(n - 1) % 4 # 0 -> <<FALSE, <<>>>>
        [] pad = 2 /\ Val(n - 2) % 16 # 0 -> <<FALSE, <<>>>>
        [] OTHER -> <<TRUE, [i \in 1..((n \div 4) * 3 - pad) |->
                              Byte((i - 1) \div 3, ((i - 1) % 3) + 1)]>>

(***************************************************************************)
(* to_string.  An emitter returns Said(text written), or SaidPanic for a   *)
(* panic!, or SaidBeyond for a float whose text the model does not know.   *)
(***************************************************************************)
Said(out) == [st |-> "ok", out |-> out]

SaidPanic == [st |-> "panic", out |-> <<>>]

SaidBeyond == [st |-> "beyond", out |-> <<>>]

\* The texts of the parts one after the other, or what stopped the first part that failed.
Joined(parts) ==
  IF \A i \in 1..Len(parts) : parts[i].st = "ok"
  THEN Said(Flatten([i \in 1..Len(parts) |-> parts[i].out]))
  ELSE parts[CHOOSE i \in 1..Len(parts) :
               parts[i].st # "ok" /\ \A j \in 1..(i - 1) : parts[j].st = "ok"]

\* The text `before` and then what an emitter said.
After(before, said) == IF said.st # "ok" THEN said ELSE Said(before \o said.out)

\* format!("{val:.}\n") of a Float
FloatToString(w) ==
  IF DisplayF32(w) = <<>> THEN SaidBeyond ELSE Said(DisplayF32(w) \o <<10>>)

\* The key_string of a map pair: Said(text), or SaidPanic for an unprintable key.
KeyString(key) ==
  CASE key.k = "Enum" -> Said(ReplaceDouble(key.s, 58, <<45, 62>>))
    [] key.k = "Int" -> Said(DisplayI32(key.w))
    [] key.k = "UInt16" -> Said(DisplayUnsigned(key.w))
    [] key.k = "String" -> Said(key.s)
    [] key.k = "Float" -> IF DisplayF32(key.w) = <<>> THEN SaidBeyond ELSE Said(DisplayF32(key.w))
    [] key.k = "Byte" -> Said(LowerHex(<<key.n>>))
    [] OTHER -> SaidPanic

\* The lines of an Array before its items.
ArrayHead(d, metadata, indent_spaces) ==
  <<33, 65, 114, 114, 97, 121, 10>>
  \o Spaces(indent_spaces + 2) \o <<105, 116, 101, 109, 95, 116, 121, 112, 101, 58, 32>> \o metadata.item \o <<10>>
  \o (IF d.schema = <<>> THEN <<>>
      ELSE Spaces(indent_spaces + 2) \o <<105, 116, 101, 109, 95, 115, 99, 104, 101, 109, 97, 58, 10>>
           \o Spaces(indent_spaces + 2) \o <<32, 32, 110, 97, 109, 101, 58, 32>> \o d.schema[1].hdr.name \o <<10>>
           \o Spaces(indent_spaces + 2) \o <<32, 32, 116, 121, 112, 101, 58, 32>> \o d.schema[1].hdr.type \o <<10>>
           \o Spaces(indent_spaces + 2) \o <<97, 114, 114, 97, 121, 95, 110, 97, 109, 101, 58, 32>> \o d.schema[1].an \o <<10>>)
  \o Spaces(indent_spaces + 2) \o <<105, 116, 101, 109, 115, 58, 10>>

\* The lines of a Map before its pairs.
MapHead(metadata, indent_spaces) ==
  <<33, 77, 97, 112, 10>>
  \o Spaces(indent_spaces + 2) \o <<107, 101, 121, 95, 116, 121, 112, 101, 58, 32>> \o metadata.key \o <<10>>
  \o Spaces(indent_spaces + 2) \o <<118, 97, 108, 95, 116, 121, 112, 101, 58, 32>> \o metadata.val \o <<10>>
  \o Spaces(indent_spaces + 2) \o <<109, 97, 112, 95, 100, 97, 116, 97, 58, 10>>

RECURSIVE UObjectPropertyData_to_string(_, _, _)
RECURSIVE UObjectProperty_to_string(_, _)

UObjectPropertyData_to_string(d, metadata, indent_spaces) ==
  CASE d.k = "Array" ->
         IF metadata.m # "Array" THEN SaidPanic
         ELSE After(ArrayHead(d, metadata, indent_spaces),
                Joined([i \in 1..Len(d.items) |->
                  After(Spaces(indent_spaces + 2) \o <<45, 32>> \o DisplayUnsigned(U32LE(i - 1)) \o <<58>>,
                        UObjectPropertyData_to_string(d.items[i], metadata, indent_spaces + 4))]))
    [] d.k = "Bool" ->
         IF metadata.m # "Bool" THEN SaidPanic
         ELSE Said(IF metadata.b THEN <<116, 114, 117, 101, 10>> ELSE <<102, 97, 108, 115, 101, 10>>)
    [] d.k = "Byte" ->
         CASE metadata.m = "Byte" ->
                Said(<<33, 66, 121, 116, 101, 80, 114, 111, 112, 101, 114, 116, 121, 32>> \o LowerHex(metadata.e) \o <<32>>
                     \o LowerHex(<<metadata.t>>) \o <<32>> \o LowerHex(<<d.n>>) \o <<10>>)
           [] metadata.m = "Array" ->
                Said(<<33, 66, 121, 116, 101, 80, 114, 111, 112, 101, 114, 116, 121, 32, 48, 32, 48, 32>> \o LowerHex(<<d.n>>) \o <<10>>)
           [] OTHER -> SaidPanic
    [] d.k = "Enum" ->
         IF metadata.m # "Enum" THEN SaidPanic
         ELSE Said(<<33, 69, 110, 117, 109, 80, 114, 111, 112, 101, 114, 116, 121, 32>> \o metadata.s \o <<32>>
                   \o ReplaceDouble(d.s, 58, <<45, 62>>) \o <<10>>)
    [] d.k = "Struct" ->
         After((IF metadata.m = "Struct" THEN <<33, 115, 116, 114, 117, 99, 116, 32>> \o Base64Encode(metadata.data)
                ELSE <<>>) \o <<10>>,
           Joined([i \in 1..Len(d.props) |->
             After(Spaces(indent_spaces + 2),
                   UObjectProperty_to_string(d.props[i], indent_spaces + 2))]))
    [] d.k = "Float" -> FloatToString(d.w)
    [] d.k = "String" ->
         IF d.s = <<>> THEN Said(<<33, 69, 109, 112, 116, 121, 83, 116, 114, 105, 110, 103, 10>>)
         ELSE Said(<<34>> \o ReplaceByte(d.s, 10, <<92, 110>>) \o <<34, 10>>)
    [] d.k = "StringUtf16" -> Said(<<33, 117, 116, 102, 49, 54, 32>> \o ReplaceByte(d.s, 10, <<92, 110>>) \o <<10>>)
    [] d.k = "Map" ->
         IF metadata.m # "Map" THEN SaidPanic
         ELSE After(MapHead(metadata, indent_spaces),
                Joined([i \in 1..Len(d.pairs) |->
                  IF KeyString(d.pairs[i][1]).st # "ok" THEN KeyString(d.pairs[i][1])
                  ELSE After(Spaces(indent_spaces + 4) \o <<45, 32>>
                             \o KeyString(d.pairs[i][1]).out \o <<58>>,
                             UObjectPropertyData_to_string(d.pairs[i][2], metadata,
                                                           indent_spaces + 6))]))
    [] d.k = "Name" -> Said(<<33, 110, 97, 109, 101, 32>> \o d.s \o <<10>>)
    [] d.k = "UInt16" -> Said(<<33, 117, 49, 54, 32>> \o DisplayUnsigned(d.w) \o <<10>>)
    [] d.k = "UInt32" -> Said(<<33, 117, 51, 50, 32>> \o DisplayUnsigned(d.w) \o <<10>>)
    [] d.k = "Int" -> Said(<<33, 105, 51, 50, 32>> \o DisplayI32(d.w) \o <<10>>)

UObjectProperty_to_string(prop, indent_spaces) ==
  After(prop.header.name
        \o (IF prop.header.arr_index = Zeros(8) THEN <<58, 32>>
            ELSE <<91>> \o DisplayUnsigned(prop.header.arr_index) \o <<93, 58, 32>>),
        UObjectPropertyData_to_string(prop.data, prop.metadata, indent_spaces))

IoUObject_to_string(doc) ==
  After(<<115, 117, 109, 109, 97, 114, 121, 58, 32>> \o Base64Encode(UObjectSummary_to_bytes(doc.summary)) \o <<10, 99, 111, 110, 116, 101, 110, 116, 115, 58, 10>>,
    Joined([i \in 1..Len(doc.properties) |->
      After(<<32, 32>>, UObjectProperty_to_string(doc.properties[i], 2))]))

(***************************************************************************)
(* from_string.  The reader is the text t and a position p in it, the      *)
(* number of bytes read.  The text is a String's bytes (what to_string     *)
(* wrote): read_line of bytes that are no UTF-8 does not arise.  A parser  *)
(* returns Ok(value, position), Err, Panic, or Beyond for an input whose   *)
(* outcome the model does not determine.                                   *)
(***************************************************************************)
Beyond == [st |-> "beyond", v |-> <<>>, p |-> 0]

\* BufRead::read_line: the bytes up to and with the next '\n', or up to the
\* end of the text; nothing at the end of the text.
ReadLine(t, p) ==
  LET e == IF \A i \in (p + 1)..Len(t) : t[i] # 10 THEN Len(t)
           ELSE CHOOSE i \in (p + 1)..Len(t) : t[i] = 10 /\ \A j \in (p + 1)..(i - 1) : t[j] # 10
  IN  [line |-> SubSeq(t, p + 1, e), p |-> e]

RECURSIVE next_nonempty_line(_, _)
next_nonempty_line(t, p) ==
  LET r == ReadLine(t, p)
  IN  IF Len(r.line) = 0 \/ Trim(r.line) # <<>> THEN r ELSE next_nonempty_line(t, r.p)

\* val.replace('\t', "  ").chars().take(spaces).all(|c| c == ' ').  The first
\* `spaces` characters of the replaced text come from the first `spaces`
\* bytes of val, and a character is ' ' exactly when its first byte is 32.
check_indent(val, spaces) ==
  LET e == ReplaceByte(SubSeq(val, 1, IF spaces < Len(val) THEN spaces ELSE Len(val)), 9, <<32, 32>>)
  IN  \A i \in 1..(IF spaces < Len(e) THEN spaces ELSE Len(e)) : e[i] = 32

get_string_type(d) ==
  CASE d.k = "Array" -> sArrayProperty
    [] d.k = "Bool" -> sBoolProperty
    [] d.k = "Byte" -> sByteProperty
    [] d.k = "Enum" -> sEnumProperty
    [] d.k = "Struct" -> sStructProperty
    [] d.k = "Float" -> sFloatProperty
    [] d.k \in {"String", "StringUtf16"} -> sStrProperty
    [] d.k = "Map" -> sMapProperty
    [] d.k = "Name" -> sNameProperty
    [] d.k = "UInt16" -> sUInt16Property
    [] d.k = "UInt32" -> sUInt32Property
    [] d.k = "Int" -> sIntProperty

\* Ok((data, metadata), p)
Parsed(d, metadata, p) == Ok([d |-> d, metadata |-> metadata], p)

\* A tag with one parameter after the first ' ': !u16, !u32, !i32, !utf16, !name.
OneParameter(val, p) ==
  LET sp == SplitOnce(val, 32)
      Word(kind, w) == IF w = <<>> THEN Err ELSE Parsed([k |-> kind, w |-> w], MetaNone, p)
  IN  CASE ~sp.found -> Err
        [] StartsWith(val, <<33, 117, 49, 54>>) -> Word("UInt16", ParseUnsigned(sp.after, 2, 10))
        [] StartsWith(val, <<33, 117, 51, 50>>) -> Word("UInt32", ParseUnsigned(sp.after, 4, 10))
        [] StartsWith(val, <<33, 105, 51, 50>>) -> Word("Int", ParseI32(sp.after))
        [] StartsWith(val, <<33, 117, 116, 102, 49, 54>>) ->
             Parsed([k |-> "StringUtf16", s |-> ReplacePair(sp.after, 92, 110, <<10>>)], MetaNone, p)
        [] StartsWith(val, <<33, 110, 97, 109, 101>>) -> Parsed([k |-> "Name", s |-> sp.after], MetaNone, p)

\* !ByteProperty with its three parameters read as hexadecimal numbers.
ByteParsed(p, byte_val, enum_id, enum_val) ==
  IF byte_val = <<>> \/ enum_id = <<>> \/ enum_val = <<>> THEN Err
  ELSE Parsed([k |-> "Byte", n |-> byte_val[1]],
              [m |-> "Byte", e |-> enum_id, t |-> enum_val[1]], p)

\* !ByteProperty or !EnumProperty with vals what split_whitespace gives.
WithParameters(val, p, vals) ==
  IF StartsWith(val, <<33, 66, 121, 116, 101, 80, 114, 111, 112, 101, 114, 116, 121>>)
  THEN IF Len(vals) < 4 THEN Err
       ELSE ByteParsed(p, ParseUnsigned(vals[4], 1, 16), ParseUnsigned(vals[2], 8, 16),
                       ParseUnsigned(vals[3], 1, 16))
  ELSE IF Len(vals) < 3 THEN Err
       ELSE Parsed([k |-> "Enum", s |-> ReplacePair(vals[3], 45, 62, <<58, 58>>)],
                   [m |-> "Enum", s |-> vals[2]], p)

\* !ByteProperty with three hexadecimal parameters, !EnumProperty with two strings.
ManyParameters(val, p) == WithParameters(val, p, SplitWhitespace(val))

\* The last arms with f what val.parse::<f32>() gave: a float, a bool, or else
\* a string with or without quotes.  take(val.len() - 2) counts bytes, not
\* characters; of a lone '"' it overflows (a panic with overflow checks, the
\* whole rest without).
UntaggedAfter(val, p, f) ==
  LET b == ParseBool(val)
      cs == Chars(val)
      take == IF Len(val) - 2 < Len(cs) - 1 THEN Len(val) - 2 ELSE Len(cs) - 1
      str == IF StartsWith(val, <<34>>) THEN FromChars(SubSeq(cs, 2, 1 + take)) ELSE val
  IN  CASE f.st = "ok" -> Parsed([k |-> "Float", w |-> f.w], MetaNone, p)
        [] f.st = "beyond" -> Beyond
        [] b[1] -> Parsed([k |-> "Bool"], [m |-> "Bool", b |-> b[2]], p)
        [] StartsWith(val, <<34>>) /\ ~EndsWith(val, <<34>>) -> Err
        [] StartsWith(val, <<34>>) /\ Len(val) < 2 -> Beyond
        [] OTHER -> Parsed([k |-> "String", s |-> ReplacePair(str, 92, 110, <<10>>)], MetaNone, p)

\* The last arms of UObjectPropertyData::from_string.
Untagged(val, p) == UntaggedAfter(val, p, ParseF32(val))

\* A Float key with f what key.parse() gave.
FloatKey(f) ==
  CASE f.st = "ok" -> Ok([k |-> "Float", w |-> f.w], 0)
    [] f.st = "beyond" -> Beyond
    [] OTHER -> Err

\* A key that is a number, with w what its parse gave.
WordKey(kind, w) == IF w = <<>> THEN Err ELSE Ok([k |-> kind, w |-> w], 0)

\* A Byte key with w what u8::from_str_radix(key, 16) gave.
ByteKey(w) == IF w = <<>> THEN Err ELSE Ok([k |-> "Byte", n |-> w[1]], 0)

\* The key of a map entry, read as key_type says: Ok(data, 0) or Err.
ParseKey(key_type, key) ==
  CASE key_type = sIntProperty -> WordKey("Int", ParseI32(key))
    [] key_type = sUInt16Property -> WordKey("UInt16", ParseUnsigned(key, 2, 10))
    [] key_type = sStrProperty -> Ok([k |-> "String", s |-> key], 0)
    [] key_type = sFloatProperty -> FloatKey(ParseF32(key))
    [] key_type = sByteProperty -> ByteKey(ParseUnsigned(key, 1, 16))
    [] key_type = sEnumProperty -> Ok([k |-> "Enum", s |-> ReplacePair(key, 45, 62, <<58, 58>>)], 0)
    [] OTHER -> Err

RECURSIVE UObjectProperty_from_string(_, _, _)
RECURSIVE UObjectPropertyData_from_string(_, _, _, _)
RECURSIVE PropsFromString(_, _, _)
RECURSIVE SetsFromString(_, _, _, _)
RECURSIVE ItemsFromString(_, _, _)
RECURSIVE MapLines(_, _, _, _, _)
RECURSIVE SchemaLines(_, _, _, _, _)
RECURSIVE ArrayLines(_, _, _, _, _)

\* The loop of PropsFromString with r what UObjectProperty::from_string returned.
PropsParsedAfter(t, expected_indent_level, r) ==
  CASE r.st # "ok" -> r
    [] r.v = <<>> -> Ok(<<>>, r.p)
    [] OTHER -> Prepended(r.v[1], PropsFromString(t, r.p, expected_indent_level))

\* while let Some(prop) = UObjectProperty::from_string(reader, indent)? { props.push(prop) }
PropsFromString(t, p, expected_indent_level) ==
  PropsParsedAfter(t, expected_indent_level,
                   UObjectProperty_from_string(t, p, expected_indent_level))

\* SetsParsedAfter with an entry left out when a later entry has its key.
SetsParsedAfter_keys_merged(t, expected_indent_level, key_type, key, val) ==
  CASE key.st # "ok" -> key
    [] val.st # "ok" -> val
    [] OTHER ->
         LET rest == SetsFromString(t, val.p, expected_indent_level, key_type)
         IN  IF rest.st = "ok" /\ \E i \in 1..Len(rest.v) : rest.v[i][1] = key.v
             THEN rest
             ELSE Prepended(<<key.v, val.v>>, rest)

\* An entry of map_data with its key and its value read: sets.push((key, val)).
SetsParsedAfter(t, expected_indent_level, key_type, key, val) ==
  CASE key.st # "ok" -> key
    [] val.st # "ok" -> val
    [] OTHER -> Prepended(<<key.v, val.v>>,
                          SetsFromString(t, val.p, expected_indent_level, key_type))

\* The loop of map_data with r the line read: an entry, or a line that is no
\* entry of this map, which is put back.
SetsOfLine(t, expected_indent_level, key_type, r) ==
  LET dash == SplitOnce(r.line, 45)
      colon == SplitOnce(dash.after, 58)
  IN  CASE \/ ~StartsWith(Trim(r.line), <<45>>)
           \/ ~check_indent(r.line, expected_indent_level + 4) ->
             Ok(<<>>, r.p - Len(r.line))
        [] ~dash.found \/ ~colon.found -> Err
        [] OTHER -> SetsParsedAfter(t, expected_indent_level, key_type,
                      ParseKey(key_type, Trim(colon.before)),
                      UObjectPropertyData_from_string(colon.after, t, r.p,
                                                      expected_indent_level + 6))

\* The loop of map_data: the entries <<key, (value, metadata)>>.
SetsFromString(t, p, expected_indent_level, key_type) ==
  SetsOfLine(t, expected_indent_level, key_type, next_nonempty_line(t, p))

\* An item with its value read: items.push(val).
ItemsParsedAfter(t, expected_indent_level, val) ==
  IF val.st # "ok" THEN val
  ELSE Prepended(val.v, ItemsFromString(t, val.p, expected_indent_level))

\* ItemsOfLine with a line put back for its indent only.
ItemsOfLine_dash_unchecked(t, expected_indent_level, r) ==
  LET colon == SplitOnce(r.line, 58)
  IN  CASE ~check_indent(r.line, expected_indent_level + 2) ->
             Ok(<<>>, r.p - Len(r.line))
        [] ~colon.found -> Err
        [] OTHER -> ItemsParsedAfter(t, expected_indent_level,
                      UObjectPropertyData_from_string(colon.after, t, r.p,
                                                      expected_indent_level + 4))

\* The loop of items with r the line read: an item, or a line that is no item
\* of this array, which is put back.
ItemsOfLine(t, expected_indent_level, r) ==
  LET colon == SplitOnce(r.line, 58)
  IN  CASE \/ ~StartsWith(Trim(r.line), <<45>>)
           \/ ~check_indent(r.line, expected_indent_level + 2) ->
             Ok(<<>>, r.p - Len(r.line))
        [] ~colon.found -> Err
        [] OTHER -> ItemsParsedAfter(t, expected_indent_level,
                      UObjectPropertyData_from_string(colon.after, t, r.p,
                                                      expected_indent_level + 4))

\* The loop of items: the (value, metadata) of each "- n: value" line.
ItemsFromString(t, p, expected_indent_level) ==
  ItemsOfLine(t, expected_indent_level, next_nonempty_line(t, p))

\* map_data with its entries read: every value is of the value type.
MapWithSets(t, expected_indent_level, n, s, sets) ==
  CASE sets.st # "ok" -> sets
    [] \E i \in 1..Len(s.sets \o sets.v) :
         get_string_type((s.sets \o sets.v)[i][2].d) # s.value_type[1] -> Err
    [] OTHER -> MapLines(t, sets.p, expected_indent_level, n - 1,
                         [s EXCEPT !.sets = s.sets \o sets.v])

\* One iteration of for _ in 0..3 of !Map, with r the line read.
MapLine(t, expected_indent_level, n, s, r) ==
  LET colon == SplitOnce(r.line, 58)
      key == Trim(colon.before)
  IN  CASE ~check_indent(r.line, expected_indent_level + 2) -> Err
        [] ~colon.found -> Err
        [] key = <<107, 101, 121, 95, 116, 121, 112, 101>> ->
             MapLines(t, r.p, expected_indent_level, n - 1,
                      [s EXCEPT !.key_type = <<Trim(colon.after)>>])
        [] key = <<118, 97, 108, 95, 116, 121, 112, 101>> ->
             MapLines(t, r.p, expected_indent_level, n - 1,
                      [s EXCEPT !.value_type = <<Trim(colon.after)>>])
        [] key = <<109, 97, 112, 95, 100, 97, 116, 97>> ->
             IF s.key_type = <<>> \/ s.value_type = <<>> THEN Err
             ELSE MapWithSets(t, expected_indent_level, n, s,
                    SetsFromString(t, r.p, expected_indent_level, s.key_type[1]))
        [] OTHER -> Err

\* for _ in 0..3 of !Map, n iterations to go.  s is what the loop has so
\* far: key_type and value_type (<<>> for None, <<string>> for Some) and sets.
MapLines(t, p, expected_indent_level, n, s) ==
  IF n = 0 THEN Ok(s, p)
  ELSE MapLine(t, expected_indent_level, n, s, next_nonempty_line(t, p))

\* One iteration of for _ in 0..2 of item_schema, with r the line read.
SchemaLine(t, expected_indent_level, n, s, r) ==
  LET colon == SplitOnce(r.line, 58)
      key == Trim(colon.before)
  IN  CASE ~check_indent(r.line, expected_indent_level + 4) -> Err
        [] ~colon.found -> Err
        [] key = <<110, 97, 109, 101>> ->
             SchemaLines(t, r.p, expected_indent_level, n - 1, <<<<Trim(colon.after)>>, s[2]>>)
        [] key = <<116, 121, 112, 101>> ->
             SchemaLines(t, r.p, expected_indent_level, n - 1, <<s[1], <<Trim(colon.after)>>>>)
        [] OTHER -> Err

\* The two lines of item_schema: Ok(<<header>>, p) or Err.  s is <<name, type>> so far.
SchemaLines(t, p, expected_indent_level, n, s) ==
  CASE n > 0 -> SchemaLine(t, expected_indent_level, n, s, next_nonempty_line(t, p))
    [] s[1] = <<>> \/ s[2] = <<>> -> Err
    [] OTHER -> Ok(<<[name |-> s[1][1], type |-> s[2][1], arr_index |-> Zeros(8)]>>, p)

\* item_schema with its two lines read.
ArrayWithSchema(t, expected_indent_level, i, s, schema) ==
  IF schema.st # "ok" THEN schema
  ELSE ArrayLines(t, schema.p, expected_indent_level, i + 1,
                  [s EXCEPT !.item_schema = schema.v])

\* items with its items read: every item is of the item type.
ArrayWithItems(t, expected_indent_level, i, s, items) ==
  CASE items.st # "ok" -> items
    [] \E n \in 1..Len(s.items \o items.v) :
         get_string_type((s.items \o items.v)[n].d) # s.item_type[1] -> Err
    [] OTHER -> ArrayLines(t, items.p, expected_indent_level, i + 1,
                           [s EXCEPT !.items = s.items \o items.v])

\* One iteration of while i < 2 of !Array, with r the line read.
ArrayLine(t, expected_indent_level, i, s, r) ==
  LET colon == SplitOnce(r.line, 58)
      key == Trim(colon.before)
  IN  CASE ~check_indent(r.line, expected_indent_level + 2) -> Err
        [] ~colon.found -> Err
        [] key = <<105, 116, 101, 109, 95, 116, 121, 112, 101>> ->
             ArrayLines(t, r.p, expected_indent_level,
                        IF Trim(colon.after) = sStructProperty THEN i - 2 + 1 ELSE i + 1,
                        [s EXCEPT !.item_type = <<Trim(colon.after)>>])
        [] key = <<105, 116, 101, 109, 95, 115, 99, 104, 101, 109, 97>> ->
             ArrayWithSchema(t, expected_indent_level, i, s,
               SchemaLines(t, r.p, expected_indent_level, 2, <<<<>>, <<>>>>))
        [] key = <<97, 114, 114, 97, 121, 95, 110, 97, 109, 101>> ->
             ArrayLines(t, r.p, expected_indent_level, i + 1,
                        [s EXCEPT !.array_name = <<Trim(colon.after)>>])
        [] key = <<105, 116, 101, 109, 115>> ->
             IF s.item_type = <<>> THEN Err
             ELSE ArrayWithItems(t, expected_indent_level, i, s,
                    ItemsFromString(t, r.p, expected_indent_level))
        [] OTHER -> Err

\* while i < 2 of !Array.  s is what the loop has so far: item_type,
\* item_schema and array_name (<<>> for None) and items.
ArrayLines(t, p, expected_indent_level, i, s) ==
  IF i >= 2 THEN Ok(s, p)
  ELSE ArrayLine(t, expected_indent_level, i, s, next_nonempty_line(t, p))

\* A Struct with its metadata and the properties read.
StructParsed(metadata, props) ==
  IF props.st # "ok" THEN props
  ELSE Parsed([k |-> "Struct", props |-> props.v], metadata, props.p)

\* "!struct <base64>" with data what the decoding gave.
StructOfBase64(t, p, expected_indent_level, data) ==
  IF ~data[1] THEN Err
  ELSE StructParsed([m |-> "Struct", data |-> data[2]],
                    PropsFromString(t, p, expected_indent_level + 2))

\* The first arm: a Struct, with metadata from "!struct <base64>" or None.
StructFromString(val, t, p, expected_indent_level) ==
  CASE val = <<>> -> StructParsed(MetaNone, PropsFromString(t, p, expected_indent_level + 2))
    [] ~SplitOnce(val, 32).found -> Err
    [] OTHER -> StructOfBase64(t, p, expected_indent_level,
                               Base64Decode(SplitOnce(val, 32).after))

\* !Map with its three lines read.
MapParsed(s) ==
  CASE s.st # "ok" -> s
    [] s.v.sets = <<>> -> Err
    [] s.v.key_type = <<>> \/ s.v.value_type = <<>> -> Err
    [] OTHER -> Parsed([k |-> "Map",
                        pairs |-> [i \in 1..Len(s.v.sets) |->
                                     <<s.v.sets[i][1], s.v.sets[i][2].d>>]],
                       [m |-> "Map", key |-> s.v.key_type[1], val |-> s.v.value_type[1]],
                       s.p)

MapFromString(t, p, expected_indent_level) ==
  MapParsed(MapLines(t, p, expected_indent_level, 3,
                     [key_type |-> <<>>, value_type |-> <<>>, sets |-> <<>>]))

\* ArrayParsed without the check of items.is_empty().
ArrayParsed_empty_kept(s) ==
  CASE s.st # "ok" -> s
    [] s.v.item_schema # <<>> /\ s.v.array_name = <<>> -> Panic
    [] s.v.item_type = <<>> -> Err
    [] OTHER -> Parsed([k |-> "Array",
                        items |-> [i \in 1..Len(s.v.items) |-> s.v.items[i].d],
                        schema |-> IF s.v.item_schema = <<>> THEN <<>>
                                   ELSE <<[hdr |-> s.v.item_schema[1],
                                           an |-> s.v.array_name[1]]>>],
                       [m |-> "Array", item |-> s.v.item_type[1]], s.p)

\* !Array with its lines read.
ArrayParsed(s) ==
  CASE s.st # "ok" -> s
    [] s.v.items = <<>> -> Err
    [] s.v.item_schema # <<>> /\ s.v.array_name = <<>> -> Panic
    [] s.v.item_type = <<>> -> Err
    [] OTHER -> Parsed([k |-> "Array",
                        items |-> [i \in 1..Len(s.v.items) |-> s.v.items[i].d],
                        schema |-> IF s.v.item_schema = <<>> THEN <<>>
                                   ELSE <<[hdr |-> s.v.item_schema[1],
                                           an |-> s.v.array_name[1]]>>],
                       [m |-> "Array", item |-> s.v.item_type[1]], s.p)

ArrayFromString(t, p, expected_indent_level) ==
  ArrayParsed(ArrayLines(t, p, expected_indent_level, 0,
                         [item_type |-> <<>>, item_schema |-> <<>>, array_name |-> <<>>,
                          items |-> <<>>]))

\* UObjectPropertyData::from_string of val = val.trim().
DataOfValue(val, t, p, expected_indent_level) ==
  CASE val = <<>> \/ StartsWith(val, <<33, 115, 116, 114, 117, 99, 116>>) ->
         StructFromString(val, t, p, expected_indent_level)
    [] StartsWith(val, <<33, 77, 97, 112>>) -> MapFromString(t, p, expected_indent_level)
    [] StartsWith(val, <<33, 65, 114, 114, 97, 121>>) -> ArrayFromString(t, p, expected_indent_level)
    [] \/ StartsWith(val, <<33, 117, 49, 54>>) \/ StartsWith(val, <<33, 117, 51, 50>>)
       \/ StartsWith(val, <<33, 105, 51, 50>>) -> OneParameter(val, p)
    [] \/ StartsWith(val, <<33, 66, 121, 116, 101, 80, 114, 111, 112, 101, 114, 116, 121>>)
       \/ StartsWith(val, <<33, 69, 110, 117, 109, 80, 114, 111, 112, 101, 114, 116, 121>>) -> ManyParameters(val, p)
    [] StartsWith(val, <<33, 117, 116, 102, 49, 54>>) -> OneParameter(val, p)
    [] StartsWith(val, <<33, 69, 109, 112, 116, 121, 83, 116, 114, 105, 110, 103>>) -> Parsed([k |-> "String", s |-> <<>>], MetaNone, p)
    [] StartsWith(val, <<33, 110, 97, 109, 101>>) -> OneParameter(val, p)
    [] OTHER -> Untagged(val, p)

UObjectPropertyData_from_string(val, t, p, expected_indent_level) ==
  DataOfValue(Trim(val), t, p, expected_indent_level)

\* The name and the index of the trimmed "name" or "name[index]".
NameOf(name) ==
  <<TakeWhileNot(name, 91),
    IF Position(name, 91) = 0 THEN Zeros(8)
    ELSE ParseUnsigned(TakeWhileNot(SubSeq(name, Position(name, 91) + 1, Len(name)), 93),
                       8, 10)>>

\* The name and the index of "name" or "name[index]": <<name, index>>, the
\* index <<>> when it does not parse.
NameAndIndex(name) == NameOf(Trim(name))

\* UObjectProperty::from_string with its name, its index and its data read.
PropertyParsed(ni, data) ==
  CASE ni[2] = <<>> -> Err
    [] data.st # "ok" -> data
    [] OTHER -> Ok(<<[header |-> [name |-> ni[1], type |-> get_string_type(data.v.d),
                                 arr_index |-> ni[2]],
                     metadata |-> data.v.metadata, data |-> data.v.d]>>, data.p)

\* PropertyOfLine with the line that is no property of this scope not put back.
PropertyOfLine_line_kept(t, expected_indent_level, r) ==
  LET colon == SplitOnce(r.line, 58)
  IN  CASE Len(r.line) = 0 \/ ~check_indent(r.line, expected_indent_level) ->
             Ok(<<>>, r.p)
        [] ~colon.found -> Err
        [] OTHER -> PropertyParsed(NameAndIndex(colon.before),
                      UObjectPropertyData_from_string(colon.after, t, r.p,
                                                      expected_indent_level))

\* UObjectProperty::from_string with r the line read: a property, or a line
\* that is no property of this scope, which is put back.
PropertyOfLine(t, expected_indent_level, r) ==
  LET colon == SplitOnce(r.line, 58)
  IN  CASE Len(r.line) = 0 \/ ~check_indent(r.line, expected_indent_level) ->
             Ok(<<>>, r.p - Len(r.line))
        [] ~colon.found -> Err
        [] OTHER -> PropertyParsed(NameAndIndex(colon.before),
                      UObjectPropertyData_from_string(colon.after, t, r.p,
                                                      expected_indent_level))

\* UObjectProperty::from_string: Ok(<<property>>, p), or Ok(<<>>, p).
UObjectProperty_from_string(t, p, expected_indent_level) ==
  PropertyOfLine(t, expected_indent_level, next_nonempty_line(t, p))

\* SummaryOfBase64 with the bytes after the name table left out of the summary.
SummaryOfBase64_tail_dropped(bytes) ==
  IF ~bytes[1] THEN Err
  ELSE IF UObjectSummary_from_buffer(bytes[2], 0).st # "ok"
       THEN UObjectSummary_from_buffer(bytes[2], 0)
       ELSE Ok([UObjectSummary_from_buffer(bytes[2], 0).v EXCEPT !.remaining_bytes = <<>>],
               UObjectSummary_from_buffer(bytes[2], 0).p)

\* UObjectSummary::from_string with bytes what the base64 decoding gave.
SummaryOfBase64(bytes) ==
  IF ~bytes[1] THEN Err ELSE UObjectSummary_from_buffer(bytes[2], 0)

UObjectSummary_from_string(str) == SummaryOfBase64(Base64Decode(str))

\* IoUObject::from_string with the summary read: the line "contents:", the properties.
DocParsed(t, second, summary) ==
  CASE summary.st # "ok" -> summary
    [] ~StartsWith(second.line, <<99, 111, 110, 116, 101, 110, 116, 115, 58>>) -> Err
    [] OTHER -> DocOfProperties(summary.v, PropsFromString(t, second.p, 2))

IoUObject_from_string(t) ==
  LET first == ReadLine(t, 0)
  IN  IF ~StartsWith(first.line, <<115, 117, 109, 109, 97, 114, 121, 58>>) THEN Err
      ELSE DocParsed(t, ReadLine(t, first.p),
                     UObjectSummary_from_string(Trim(SplitOnce(first.line, 58).after)))

(***************************************************************************)
(* The documents the model runs on (after mod test: get_test_object and    *)
(* its mk.. helpers), smaller, one per kind of property.                   *)
(***************************************************************************)
nA == <<65>>                            \* "A"
nB == <<66>>                            \* "B"
nE == <<69>>                            \* "E"
nEV == <<69, 58, 58, 86>>               \* "E::V"
nS == <<83>>                            \* "S"
sTextProperty == <<84, 101, 120, 116, 80, 114, 111, 112, 101, 114, 116, 121>>

Hdr(name, type) == [name |-> name, type |-> type, arr_index |-> Zeros(8)]

Prop(name, type, metadata, data) ==
  [header |-> Hdr(name, type), metadata |-> metadata, data |-> data]

IntD(n) == [k |-> "Int", w |-> U32LE(n)]

StrD(s) == [k |-> "String", s |-> s]

StructD(props) == [k |-> "Struct", props |-> props]

mkbool(name, value) == Prop(name, sBoolProperty, [m |-> "Bool", b |-> value], [k |-> "Bool"])

mkbyte(name, enum_type, value) ==
  Prop(name, sByteProperty, [m |-> "Byte", e |-> U64LE(enum_type), t |-> 0], [k |-> "Byte", n |-> value])

mkint(name, value) == Prop(name, sIntProperty, MetaNone, IntD(value))

mkfloat(name, bits) == Prop(name, sFloatProperty, MetaNone, [k |-> "Float", w |-> bits])

mkstr(name, value) == Prop(name, sStrProperty, MetaNone, StrD(value))

mkstr16(name, value) == Prop(name, sStrProperty, MetaNone, [k |-> "StringUtf16", s |-> value])

mkstruct(name, guid, props) ==
  Prop(name, sStructProperty, [m |-> "Struct", data |-> guid], StructD(props))

mkarray(name, item_type, items, schema) ==
  Prop(name, sArrayProperty, [m |-> "Array", item |-> item_type],
       [k |-> "Array", items |-> items, schema |-> schema])

mkmap(name, key_type, val_type, pairs) ==
  Prop(name, sMapProperty, [m |-> "Map", key |-> key_type, val |-> val_type],
       [k |-> "Map", pairs |-> pairs])

\* The length of the tail the test summaries carry (remaining_bytes).
TailLen == 3

\* A summary whose sizes agree with its name table and tail.
MkSummary(name_map) ==
  LET names_len == SumSeq([i \in 1..Len(name_map) |-> Len(name_map[i]) + 2])
  IN  [header |-> [name                   |-> U64LE(1),
                   source_name            |-> U64LE(5),
                   package_flags          |-> U32LE(0),
                   cooked_header_size     |-> U32LE(64),
                   name_map_names_offset  |-> U32LE(64),
                   name_map_names_size    |-> U32LE(names_len),
                   name_map_hashes_offset |-> U32LE(64 + names_len),
                   name_map_hashes_size   |-> U32LE(8 * (Len(name_map) + 1)),
                   import_map_offset      |-> U32LE(304),
                   export_map_offset      |-> U32LE(336),
                   export_bundles_offset  |-> U32LE(320),
                   graph_data_offset      |-> U32LE(64 + 1 + names_len),
                   graph_data_size        |-> U32LE(TailLen),
                   pad                    |-> U32LE(0)],
       name_map |-> name_map,
       remaining_bytes |-> [i \in 1..TailLen |-> i]]

Doc(name_map, props) == [summary |-> MkSummary(name_map), properties |-> props]

F192 == <<0, 0, 64, 67>>                \* 192f32
FNaN == <<0, 0, 192, 255>>              \* the NaN 0.0 / 0.0 gives on x86
Guid == [i \in 1..25 |-> IF i = 9 THEN 171 ELSE 0]

DocScalars ==
  Doc(<<sNone, sBoolProperty, sByteProperty, sIntProperty, nA, nB>>,
      <<mkbool(nA, TRUE), mkbyte(nB, 25, 7), mkint(nA, 77),
        [mkint(nB, -2) EXCEPT !.header.arr_index = <<3, 0, 0, 0, 0, 0, 0, 0>>]>>)

DocStrings ==
  Doc(<<sNone, sFloatProperty, sStrProperty, nA>>,
      <<mkfloat(nA, F192), mkstr(nA, <<72, 105>>), mkstr(nA, <<>>),
        mkstr16(nA, <<90, 195, 169>>), mkstr16(nA, <<>>),
        mkstr16(nA, <<240, 159, 152, 128>>)>>)

DocNames ==
  Doc(<<sNone, sEnumProperty, sNameProperty, sUInt16Property, sUInt32Property, nA, nE, nEV>>,
      <<Prop(nA, sEnumProperty, [m |-> "Enum", s |-> nE], [k |-> "Enum", s |-> nEV]),
        Prop(nA, sNameProperty, MetaNone, [k |-> "Name", s |-> nE]),
        Prop(nA, sUInt16Property, MetaNone, [k |-> "UInt16", w |-> <<1, 2>>]),
        Prop(nA, sUInt32Property, MetaNone, [k |-> "UInt32", w |-> <<1, 2, 3, 200>>])>>)

DocIntArray ==
  Doc(<<sNone, sArrayProperty, sIntProperty, nA>>,
      <<mkarray(nA, sIntProperty, <<IntD(7), IntD(293)>>, <<>>)>>)

DocEmptyArray ==
  Doc(<<sNone, sArrayProperty, sStrProperty, nA>>,
      <<mkarray(nA, sStrProperty, <<>>, <<>>), mkstr(nA, <<72>>)>>)

DocStructArray ==
  Doc(<<sNone, sArrayProperty, sStructProperty, sIntProperty, nA, nS>>,
      <<mkarray(nA, sStructProperty, <<StructD(<<mkint(nA, 7)>>), StructD(<<>>)>>,
                <<[hdr |-> Hdr(nS, sStructProperty), an |-> nA]>>)>>)

DocByteMap ==
  Doc(<<sNone, sMapProperty, sByteProperty, sIntProperty, nA>>,
      <<mkmap(nA, sByteProperty, sIntProperty,
              <<<<[k |-> "Byte", n |-> 5], IntD(10)>>, <<[k |-> "Byte", n |-> 10], IntD(20)>>>>)>>)

DocStructMap ==
  Doc(<<sNone, sMapProperty, sIntProperty, sStructProperty, sStrProperty, nA>>,
      <<mkmap(nA, sIntProperty, sStructProperty,
              <<<<IntD(2), StructD(<<mkstr(nA, <<72>>)>>)>>,
                <<IntD(2), StructD(<<mkint(nA, 1), mkint(nA, 2)>>)>>>>),
        mkint(nA, 9)>>)

DocMapOfMaps ==
  Doc(<<sNone, sMapProperty, sIntProperty, nA>>,
      <<mkmap(nA, sIntProperty, sMapProperty, <<<<IntD(1), [k |-> "Map", pairs |-> <<>>]>>>>),
        mkmap(nA, sIntProperty, sIntProperty, <<>>)>>)

DocStruct ==
  Doc(<<sNone, sStructProperty, sIntProperty, sFloatProperty, nA, nB>>,
      <<mkstruct(nA, Guid, <<mkint(nB, 3), mkstruct(nB, Zeros(25), <<mkfloat(nA, FNaN)>>)>>),
        mkint(nB, 4)>>)

\* A struct with a child named None, a struct array whose item schema is named None.
DocNoneChild ==
  Doc(<<sNone, sStructProperty, sIntProperty, nA>>,
      <<mkstruct(nA, Zeros(25), <<mkint(sNone, 3), mkint(nA, 4)>>)>>)

DocNoneSchema ==
  Doc(<<sNone, sArrayProperty, sStructProperty, sIntProperty, nA>>,
      <<mkarray(nA, sStructProperty, <<StructD(<<mkint(nA, 7)>>)>>,
                <<[hdr |-> Hdr(sNone, sStructProperty), an |-> nA]>>)>>)

\* A property of a type the code does not handle.
DocUnhandled ==
  Doc(<<sNone, sTextProperty, sIntProperty, nA>>,
      <<Prop(nA, sTextProperty, MetaNone, StructD(<<mkint(nA, 1)>>)), mkint(nA, 2)>>)

\* The same with StructProperty in the name table.
DocUnhandledKnown ==
  Doc(<<sNone, sTextProperty, sIntProperty, nA, sStructProperty>>,
      <<Prop(nA, sTextProperty, MetaNone, StructD(<<mkint(nA, 1)>>)), mkint(nA, 2)>>)

\* Properties that follow a nested array, map and struct, in a struct and at
\* the top level.
DocNested ==
  Doc(<<sNone, sStructProperty, sArrayProperty, sIntProperty, sMapProperty, nA, nB>>,
      <<mkstruct(nA, Zeros(25),
                 <<mkarray(nB, sIntProperty, <<IntD(1), IntD(2)>>, <<>>),
                   mkint(nA, 3),
                   mkmap(nB, sIntProperty, sIntProperty, <<<<IntD(1), IntD(2)>>>>),
                   mkstruct(nA, Zeros(25), <<mkint(nB, 4)>>),
                   mkint(nA, 5)>>),
        mkarray(nA, sIntProperty, <<IntD(6)>>, <<>>),
        mkint(nB, 7)>>)

\* An array of Bool items, a map with Name keys, a map with Enum values.
DocBoolItems ==
  Doc(<<sNone, sArrayProperty, sBoolProperty, nA>>,
      <<mkarray(nA, sBoolProperty, <<[k |-> "Bool"], [k |-> "Bool"]>>, <<>>)>>)

DocNameKeys ==
  Doc(<<sNone, sMapProperty, sNameProperty, sIntProperty, nA, nE>>,
      <<mkmap(nA, sNameProperty, sIntProperty, <<<<[k |-> "Name", s |-> nE], IntD(1)>>>>)>>)

DocEnumValues ==
  Doc(<<sNone, sMapProperty, sEnumProperty, sIntProperty, nA, nEV>>,
      <<mkmap(nA, sIntProperty, sEnumProperty, <<<<IntD(1), [k |-> "Enum", s |-> nEV]>>>>)>>)

\* A property whose arr_index does not fit 32 bits (the text form takes any usize).
DocWideIndex ==
  Doc(<<sNone, sIntProperty, nA>>,
      <<[mkint(nA, 5) EXCEPT !.header.arr_index = <<0, 0, 0, 0, 1, 0, 0, 0>>]>>)

\* Strings whose text form needs care: a character of two bytes, a backslash
\* followed by n, a newline, spaces at the ends, text that reads as a number,
\* as a bool or as a tag, a double quote, a colon.
DocTexts ==
  Doc(<<sNone, sStrProperty, nA>>,
      <<mkstr(nA, <<195, 169>>),                          \* "é"
        mkstr(nA, <<97, 92, 110, 98>>),                   \* a, backslash, n, b
        mkstr(nA, <<97, 10, 98>>),                        \* a, newline, b
        mkstr(nA, <<32, 97, 32>>),                        \* " a "
        mkstr(nA, <<49, 46, 53>>),                        \* "1.5"
        mkstr(nA, <<116, 114, 117, 101>>),                \* "true"
        mkstr(nA, <<33, 117, 49, 54, 32, 49>>),           \* "!u16 1"
        mkstr(nA, <<97, 34, 98>>),                        \* a, double quote, b
        mkstr(nA, <<97, 58, 98>>),                        \* "a:b"
        mkstr16(nA, <<97, 32>>),                          \* "a "
        mkstr16(nA, <<32, 97>>),                          \* " a"
        mkstr16(nA, <<97, 10>>),                          \* a, newline
        mkstr16(nA, <<92, 110>>)>>)                       \* backslash, n

\* Name tables with strings that occur twice: None, the name and the type of a
\* property and the item type of an array; an enum name and an Enum value.
DocDuplicates ==
  Doc(<<nB, sNone, nA, sIntProperty, nA, sIntProperty, sNone, sArrayProperty>>,
      <<mkint(nA, 5), mkarray(nA, sIntProperty, <<IntD(1)>>, <<>>)>>)

DocDuplicateValues ==
  Doc(<<sNone, sEnumProperty, nE, nEV, nA, nE, nEV, nA>>,
      <<Prop(nA, sEnumProperty, [m |-> "Enum", s |-> nE], [k |-> "Enum", s |-> nEV])>>)

\* Properties that refer to strings the name table does not hold: a property
\* name, a type, an item type, an enum name, an Enum value, a Name value.
DocMissingName ==
  Doc(<<sNone, sIntProperty, sEnumProperty, sArrayProperty, sNameProperty, nA>>,
      <<mkint(nB, 1),
        mkbool(nA, TRUE),
        mkarray(nA, sStrProperty, <<StrD(<<72>>)>>, <<>>),
        Prop(nA, sEnumProperty, [m |-> "Enum", s |-> nE], [k |-> "Enum", s |-> nA]),
        Prop(nA, sEnumProperty, [m |-> "Enum", s |-> nA], [k |-> "Enum", s |-> nEV]),
        Prop(nA, sNameProperty, MetaNone, [k |-> "Name", s |-> nE])>>)

Documents ==
  {DocTexts, DocDuplicates, DocDuplicateValues, DocMissingName, DocWideIndex,
   DocScalars, DocStrings, DocNames, DocIntArray, DocEmptyArray, DocStructArray, DocByteMap,
   DocStructMap, DocMapOfMaps, DocStruct, DocNoneChild, DocNoneSchema, DocUnhandled,
   DocUnhandledKnown, DocNested,
   DocBoolItems, DocNameKeys, DocEnumValues}

(***************************************************************************)
(* The parts of a document the unit operations are applied to.             *)
(***************************************************************************)
RECURSIVE DataIn(_, _, _)
RECURSIVE PropsIn(_)

\* Every data value under d, with the type name and the metadata it is decoded with.
DataIn(d, type, metadata) ==
  {[d |-> d, type |-> type, metadata |-> metadata]}
  \cup (IF d.k = "Array" /\ metadata.m = "Array"
        THEN UNION {DataIn(d.items[i], metadata.item, metadata) : i \in 1..Len(d.items)}
        ELSE IF d.k = "Map" /\ metadata.m = "Map"
        THEN UNION {DataIn(d.pairs[i][1], metadata.key, metadata)
                    \cup DataIn(d.pairs[i][2], metadata.val, metadata) : i \in 1..Len(d.pairs)}
        ELSE IF d.k = "Struct"
        THEN UNION {DataIn(q.data, q.header.type, q.metadata) : q \in PropsIn(d.props)}
        ELSE {})

\* Every property of a property list, at every depth.
PropsIn(props) ==
  UNION {{props[i]}
         \cup {q \in UNION {PropsIn(t.d.props) :
                            t \in {u \in DataIn(props[i].data, props[i].header.type,
                                                props[i].metadata) : u.d.k = "Struct"}} : TRUE}
         : i \in 1..Len(props)}

AllProps(doc) == PropsIn(doc.properties)

AllData(doc) ==
  UNION {DataIn(q.data, q.header.type, q.metadata) : q \in AllProps(doc)}

(***************************************************************************)
(* Texts written by hand, one property each at the indent of the top-level *)
(* properties: what the encode command is given when the text did not come *)
(* from the decode command.                                                *)
(***************************************************************************)
\* An array of two IntProperty items:
\*   |  A: !Array
\*   |    item_type: IntProperty
\*   |    items:
\*   |    - 0: !i32 7
\*   |    - 1: !i32 8
HandGoodArray ==
  <<32, 32, 65, 58, 32, 33, 65, 114, 114, 97, 121, 10, 32, 32, 32, 32, 105, 116, 101, 109, 95,
    116, 121, 112, 101, 58, 32, 73, 110, 116, 80, 114, 111, 112, 101, 114, 116, 121, 10, 32,
    32, 32, 32, 105, 116, 101, 109, 115, 58, 10, 32, 32, 32, 32, 45, 32, 48, 58, 32, 33, 105,
    51, 50, 32, 55, 10, 32, 32, 32, 32, 45, 32, 49, 58, 32, 33, 105, 51, 50, 32, 56, 10>>

\* An array that declares IntProperty and holds a string:
\*   |  A: !Array
\*   |    item_type: IntProperty
\*   |    items:
\*   |    - 0: !i32 7
\*   |    - 1: "x"
HandItemMismatch ==
  <<32, 32, 65, 58, 32, 33, 65, 114, 114, 97, 121, 10, 32, 32, 32, 32, 105, 116, 101, 109, 95,
    116, 121, 112, 101, 58, 32, 73, 110, 116, 80, 114, 111, 112, 101, 114, 116, 121, 10, 32,
    32, 32, 32, 105, 116, 101, 109, 115, 58, 10, 32, 32, 32, 32, 45, 32, 48, 58, 32, 33, 105,
    51, 50, 32, 55, 10, 32, 32, 32, 32, 45, 32, 49, 58, 32, 34, 120, 34, 10>>

\* A struct array with array_name twice and no item_schema:
\*   |  A: !Array
\*   |    item_type: StructProperty
\*   |    items:
\*   |    - 0:
\*   |        A: !i32 7
\*   |    array_name: A
\*   |    array_name: A
HandNoSchema ==
  <<32, 32, 65, 58, 32, 33, 65, 114, 114, 97, 121, 10, 32, 32, 32, 32, 105, 116, 101, 109, 95,
    116, 121, 112, 101, 58, 32, 83, 116, 114, 117, 99, 116, 80, 114, 111, 112, 101, 114, 116,
    121, 10, 32, 32, 32, 32, 105, 116, 101, 109, 115, 58, 10, 32, 32, 32, 32, 45, 32, 48, 58,
    10, 32, 32, 32, 32, 32, 32, 32, 32, 65, 58, 32, 33, 105, 51, 50, 32, 55, 10, 32, 32, 32,
    32, 97, 114, 114, 97, 121, 95, 110, 97, 109, 101, 58, 32, 65, 10, 32, 32, 32, 32, 97, 114,
    114, 97, 121, 95, 110, 97, 109, 101, 58, 32, 65, 10>>

\* An array whose item_type is given again after its items:
\*   |  A: !Array
\*   |    item_type: StructProperty
\*   |    item_type: StrProperty
\*   |    items:
\*   |    - 0: "x"
\*   |    item_type: IntProperty
HandTypeAgain ==
  <<32, 32, 65, 58, 32, 33, 65, 114, 114, 97, 121, 10, 32, 32, 32, 32, 105, 116, 101, 109, 95,
    116, 121, 112, 101, 58, 32, 83, 116, 114, 117, 99, 116, 80, 114, 111, 112, 101, 114, 116,
    121, 10, 32, 32, 32, 32, 105, 116, 101, 109, 95, 116, 121, 112, 101, 58, 32, 83, 116, 114,
    80, 114, 111, 112, 101, 114, 116, 121, 10, 32, 32, 32, 32, 105, 116, 101, 109, 115, 58, 10,
    32, 32, 32, 32, 45, 32, 48, 58, 32, 34, 120, 34, 10, 32, 32, 32, 32, 105, 116, 101, 109,
    95, 116, 121, 112, 101, 58, 32, 73, 110, 116, 80, 114, 111, 112, 101, 114, 116, 121, 10>>

\* A map of one IntProperty key and value:
\*   |  A: !Map
\*   |    key_type: IntProperty
\*   |    val_type: IntProperty
\*   |    map_data:
\*   |      - 1: !i32 7
HandGoodMap ==
  <<32, 32, 65, 58, 32, 33, 77, 97, 112, 10, 32, 32, 32, 32, 107, 101, 121, 95, 116, 121, 112,
    101, 58, 32, 73, 110, 116, 80, 114, 111, 112, 101, 114, 116, 121, 10, 32, 32, 32, 32, 118,
    97, 108, 95, 116, 121, 112, 101, 58, 32, 73, 110, 116, 80, 114, 111, 112, 101, 114, 116,
    121, 10, 32, 32, 32, 32, 109, 97, 112, 95, 100, 97, 116, 97, 58, 10, 32, 32, 32, 32, 32,
    32, 45, 32, 49, 58, 32, 33, 105, 51, 50, 32, 55, 10>>

\* A map that declares IntProperty values and holds a string:
\*   |  A: !Map
\*   |    key_type: IntProperty
\*   |    val_type: IntProperty
\*   |    map_data:
\*   |      - 1: !i32 7
\*   |      - 2: "x"
HandValueMismatch ==
  <<32, 32, 65, 58, 32, 33, 77, 97, 112, 10, 32, 32, 32, 32, 107, 101, 121, 95, 116, 121, 112,
    101, 58, 32, 73, 110, 116, 80, 114, 111, 112, 101, 114, 116, 121, 10, 32, 32, 32, 32, 118,
    97, 108, 95, 116, 121, 112, 101, 58, 32, 73, 110, 116, 80, 114, 111, 112, 101, 114, 116,
    121, 10, 32, 32, 32, 32, 109, 97, 112, 95, 100, 97, 116, 97, 58, 10, 32, 32, 32, 32, 32,
    32, 45, 32, 49, 58, 32, 33, 105, 51, 50, 32, 55, 10, 32, 32, 32, 32, 32, 32, 45, 32, 50,
    58, 32, 34, 120, 34, 10>>

\* A Utf16 string of no characters:
\*   |  A: !utf16 
HandEmptyUtf16 ==
  <<32, 32, 65, 58, 32, 33, 117, 116, 102, 49, 54, 32, 10>>

\* The array, and after it a line with no indent:
\*   |B: !i32 1
HandArrayThenLess == HandGoodArray \o <<66, 58, 32, 33, 105, 51, 50, 32, 49, 10>>

\* The map, and after it a property of the same scope:
\*   |  B: !i32 1
HandMapThenSibling == HandGoodMap \o <<32, 32, 66, 58, 32, 33, 105, 51, 50, 32, 49, 10>>

\* A struct of one property, an empty line, a property of the same scope:
\*   |  A:
\*   |    A: !i32 1
\*   |
\*   |  B: !i32 2
HandStructBody ==
  <<32, 32, 65, 58, 10, 32, 32, 32, 32, 65, 58, 32, 33, 105, 51, 50, 32, 49, 10, 10>>

HandStructThenSibling == HandStructBody \o <<32, 32, 66, 58, 32, 33, 105, 51, 50, 32, 50, 10>>

\* An array whose items list has no entries:
\*   |  A: !Array
\*   |    item_type: IntProperty
\*   |    items:
HandEmptyArray ==
  <<32, 32, 65, 58, 32, 33, 65, 114, 114, 97, 121, 10, 32, 32, 32, 32, 105, 116, 101, 109, 95,
    116, 121, 112, 101, 58, 32, 73, 110, 116, 80, 114, 111, 112, 101, 114, 116, 121, 10, 32,
    32, 32, 32, 105, 116, 101, 109, 115, 58, 10>>

\* An array of two header lines and no items list, a property after it:
\*   |  A: !Array
\*   |    item_type: IntProperty
\*   |    array_name: A
\*   |  B: !i32 1
HandArrayNoItems ==
  <<32, 32, 65, 58, 32, 33, 65, 114, 114, 97, 121, 10, 32, 32, 32, 32, 105, 116, 101, 109, 95,
    116, 121, 112, 101, 58, 32, 73, 110, 116, 80, 114, 111, 112, 101, 114, 116, 121, 10, 32,
    32, 32, 32, 97, 114, 114, 97, 121, 95, 110, 97, 109, 101, 58, 32, 65, 10, 32, 32, 66, 58,
    32, 33, 105, 51, 50, 32, 49, 10>>

\* A map whose map_data list has no entries, a property after it:
\*   |  A: !Map
\*   |    key_type: IntProperty
\*   |    val_type: IntProperty
\*   |    map_data:
\*   |  B: !i32 1
HandEmptyMap ==
  <<32, 32, 65, 58, 32, 33, 77, 97, 112, 10, 32, 32, 32, 32, 107, 101, 121, 95, 116, 121, 112,
    101, 58, 32, 73, 110, 116, 80, 114, 111, 112, 101, 114, 116, 121, 10, 32, 32, 32, 32, 118,
    97, 108, 95, 116, 121, 112, 101, 58, 32, 73, 110, 116, 80, 114, 111, 112, 101, 114, 116,
    121, 10, 32, 32, 32, 32, 109, 97, 112, 95, 100, 97, 116, 97, 58, 10, 32, 32, 66, 58, 32,
    33, 105, 51, 50, 32, 49, 10>>

\* A struct that holds an array whose items are at the indent of the struct:
\*   |  A:
\*   |    B: !Array
\*   |      item_type: IntProperty
\*   |      items:
\*   |  - 0: !i32 7
HandEmptyInner ==
  <<32, 32, 65, 58, 10, 32, 32, 32, 32, 66, 58, 32, 33, 65, 114, 114, 97, 121, 10, 32, 32, 32,
    32, 32, 32, 105, 116, 101, 109, 95, 116, 121, 112, 101, 58, 32, 73, 110, 116, 80, 114,
    111, 112, 101, 114, 116, 121, 10, 32, 32, 32, 32, 32, 32, 105, 116, 101, 109, 115, 58, 10,
    32, 32, 45, 32, 48, 58, 32, 33, 105, 51, 50, 32, 55, 10>>

\* A struct array with its schema, an empty line in it, and a map after it:
\*   |  A: !Array
\*   |    item_type: StructProperty
\*   |    item_schema:
\*   |      name: A
\*   |      type: StructProperty
\*   |    array_name: S
\*   |    items:
\*   |    - 0:
\*   |        A: !i32 7
\*   |
\*   |    - 1:
\*   |  B: !Map
\*   |    key_type: IntProperty
\*   |    val_type: IntProperty
\*   |    map_data:
\*   |      - 1: !i32 7
HandSchemaArray ==
  <<32, 32, 65, 58, 32, 33, 65, 114, 114, 97, 121, 10, 32, 32, 32, 32, 105, 116, 101, 109, 95,
    116, 121, 112, 101, 58, 32, 83, 116, 114, 117, 99, 116, 80, 114, 111, 112, 101, 114, 116,
    121, 10, 32, 32, 32, 32, 105, 116, 101, 109, 95, 115, 99, 104, 101, 109, 97, 58, 10, 32,
    32, 32, 32, 32, 32, 110, 97, 109, 101, 58, 32, 65, 10, 32, 32, 32, 32, 32, 32, 116, 121,
    112, 101, 58, 32, 83, 116, 114, 117, 99, 116, 80, 114, 111, 112, 101, 114, 116, 121, 10,
    32, 32, 32, 32, 97, 114, 114, 97, 121, 95, 110, 97, 109, 101, 58, 32, 83, 10, 32, 32, 32,
    32, 105, 116, 101, 109, 115, 58, 10, 32, 32, 32, 32, 45, 32, 48, 58, 10, 32, 32, 32, 32,
    32, 32, 32, 32, 65, 58, 32, 33, 105, 51, 50, 32, 55, 10, 10, 32, 32, 32, 32, 45, 32, 49,
    58, 10, 32, 32, 66, 58, 32, 33, 77, 97, 112, 10, 32, 32, 32, 32, 107, 101, 121, 95, 116,
    121, 112, 101, 58, 32, 73, 110, 116, 80, 114, 111, 112, 101, 114, 116, 121, 10, 32, 32,
    32, 32, 118, 97, 108, 95, 116, 121, 112, 101, 58, 32, 73, 110, 116, 80, 114, 111, 112,
    101, 114, 116, 121, 10, 32, 32, 32, 32, 109, 97, 112, 95, 100, 97, 116, 97, 58, 10, 32,
    32, 32, 32, 32, 32, 45, 32, 49, 58, 32, 33, 105, 51, 50, 32, 55, 10>>

\* The texts that are parsed cut short, at every length.
CutTexts == {HandSchemaArray, HandGoodMap, HandStructThenSibling, HandTypeAgain}

HandTexts ==
  {HandGoodArray, HandItemMismatch, HandNoSchema, HandTypeAgain,
   HandGoodMap, HandValueMismatch, HandEmptyUtf16,
   HandArrayThenLess, HandMapThenSibling, HandStructThenSibling,
   HandEmptyArray, HandArrayNoItems, HandEmptyMap, HandEmptyInner}

(***************************************************************************)
(* The state machine.                                                      *)
(*   mem     the document held in memory at the start                      *)
(*   file    the binary file; origin tells whether this encoder wrote it   *)
(*   dec     IoUObject::from_buffer(file)                                   *)
(*   enc     IoUObject::to_bytes(dec)                                       *)
(*   text    IoUObject::to_string(dec)                                      *)
(*   parsed  IoUObject::from_string(text)                                   *)
(*   enc2    IoUObject::to_bytes(parsed)                                    *)
(*   unit    one call of to_bytes on a property or a data value of mem     *)
(*           and of from_buffer on the bytes it wrote                      *)
(*           or one call of to_string on a property of mem and of          *)
(*           from_string on the text it wrote, or on a text written by hand *)
(***************************************************************************)
Nothing == [st |-> "none"]

\* The values a byte of a foreign file is overwritten with.
CorruptVals == {1}

\* The most bytes a foreign file lacks at its end.
MaxCut == 5

Init ==
  /\ mem \in Documents
  /\ pc = "mem"
  /\ origin = "none"
  /\ file = <<>>
  /\ dec = Nothing
  /\ enc = Nothing
  /\ text = Nothing
  /\ parsed = Nothing
  /\ enc2 = Nothing
  /\ unit = Nothing

\* The encode command, the tests: IoUObject::to_bytes of the document in memory.
WriteFile ==
  /\ pc = "mem"
  /\ LET w == IoUObject_to_bytes(mem)
     IN  /\ w.st = "ok"
         /\ file' = w.out
  /\ origin' = "written"
  /\ pc' = "file"
  /\ UNCHANGED <<mem, dec, enc, text, parsed, enc2, unit>>

\* A file from elsewhere: one byte differs from what this encoder writes.
ForeignByte ==
  /\ pc = "file" /\ origin = "written"
  /\ \E i \in 1..Len(file), v \in CorruptVals :
       /\ file[i] # v
       /\ IoUObject_from_buffer([file EXCEPT ![i] = v]).st # "long"
       /\ file' = [file EXCEPT ![i] = v]
  /\ origin' = "foreign"
  /\ UNCHANGED <<pc, mem, dec, enc, text, parsed, enc2, unit>>

\* The places a file that ends early stops at, for a summary of sum bytes: in
\* the summary header, in the name table, in the tail, and from the first
\* property on in its header, its metadata and its data.
CutPoints(sum) ==
  {32, 66, sum - 1, sum + 4, sum + 12, sum + 17, sum + 22, sum + 26, sum + 34}

\* A file from elsewhere: it ends early, some bytes before the end or at one of
\* the places above.
ForeignCut ==
  /\ pc = "file" /\ origin = "written"
  /\ \/ \E n \in 1..MaxCut : file' = SubSeq(file, 1, Len(file) - n)
     \/ \E n \in CutPoints(Len(UObjectSummary_to_bytes(mem.summary))) :
          /\ n < Len(file) - MaxCut
          /\ file' = SubSeq(file, 1, n)
  /\ origin' = "foreign"
  /\ UNCHANGED <<pc, mem, dec, enc, text, parsed, enc2, unit>>

\* The decode command, the tests: IoUObject::from_buffer.
FromBuffer ==
  /\ pc = "file"
  /\ dec' = IoUObject_from_buffer(file)
  /\ pc' = "decoded"
  /\ UNCHANGED <<origin, mem, file, enc, text, parsed, enc2, unit>>

\* IoUObject::to_bytes of the decoded document.
ToBytes ==
  /\ pc = "decoded" /\ dec.st = "ok"
  /\ enc' = IoUObject_to_bytes(dec.v)
  /\ pc' = "reencoded"
  /\ UNCHANGED <<origin, mem, file, dec, text, parsed, enc2, unit>>

\* One call of UObjectPropertyData::to_bytes, on a data value of the document.
EncodeData ==
  /\ pc = "mem"
  /\ \E t \in AllData(mem) :
       unit' = [st |-> "data", arg |-> t,
                res |-> UObjectPropertyData_to_bytes(t.d, mem.summary.name_map)]
  /\ pc' = "unit"
  /\ UNCHANGED <<origin, mem, file, dec, enc, text, parsed, enc2>>

\* One call of UObjectProperty::to_bytes, on a property of the document.
EncodeProperty ==
  /\ pc = "mem"
  /\ \E q \in AllProps(mem) :
       unit' = [st |-> "prop", arg |-> q,
                res |-> UObjectProperty_to_bytes(q, mem.summary.name_map)]
  /\ pc' = "unit"
  /\ UNCHANGED <<origin, mem, file, dec, enc, text, parsed, enc2>>

\* UObjectPropertyData::from_buffer of the bytes one call of to_bytes wrote.
DecodeData ==
  /\ pc = "unit" /\ unit.st = "data" /\ unit.res.st = "ok"
  /\ unit' = [st |-> "back", arg |-> unit.arg, res |-> unit.res,
              back |-> UObjectPropertyData_from_buffer(unit.res.out, 0, unit.arg.type,
                                                       unit.arg.metadata, mem.summary.name_map)]
  /\ UNCHANGED <<pc, origin, mem, file, dec, enc, text, parsed, enc2>>

\* UObjectProperty::from_buffer of the bytes one call of to_bytes wrote, and of
\* nothing after them.
DecodeProperty ==
  /\ pc = "unit" /\ unit.st = "prop" /\ unit.res.st = "ok"
  /\ unit' = [st |-> "propback", arg |-> unit.arg, res |-> unit.res,
              back |-> UObjectProperty_from_buffer(unit.res.out, 0, mem.summary.name_map)]
  /\ UNCHANGED <<pc, origin, mem, file, dec, enc, text, parsed, enc2>>

\* The decode command: IoUObject::to_string of the decoded document.
DocToString ==
  /\ pc = "decoded" /\ dec.st = "ok"
  /\ LET said == IoUObject_to_string(dec.v)
     IN  /\ said.st # "beyond"
         /\ text' = said
  /\ pc' = "text"
  /\ UNCHANGED <<origin, mem, file, dec, enc, parsed, enc2, unit>>

\* The encode command: IoUObject::from_string of the text.
DocFromString ==
  /\ pc = "text" /\ text.st = "ok"
  /\ LET read == IoUObject_from_string(text.out)
     IN  /\ read.st # "beyond"
         /\ parsed' = read
  /\ pc' = "parsed"
  /\ UNCHANGED <<origin, mem, file, dec, enc, text, enc2, unit>>

\* The encode command: IoUObject::to_bytes of the parsed document.
ToBytesOfParsed ==
  /\ pc = "parsed" /\ parsed.st = "ok"
  /\ enc2' = IoUObject_to_bytes(parsed.v)
  /\ pc' = "done"
  /\ UNCHANGED <<origin, mem, file, dec, enc, text, parsed, unit>>

\* One call of UObjectProperty::to_string, on a property of the document, after
\* the indent its caller writes.
SayProperty ==
  /\ pc = "mem"
  /\ \E q \in AllProps(mem) :
       LET said == After(Spaces(2), UObjectProperty_to_string(q, 2))
       IN  /\ said.st # "beyond"
           /\ unit' = [st |-> "said", arg |-> q, res |-> said]
  /\ pc' = "unit"
  /\ UNCHANGED <<origin, mem, file, dec, enc, text, parsed, enc2>>

\* UObjectProperty::from_string of the text one call of to_string wrote.
ParseProperty ==
  /\ pc = "unit" /\ unit.st = "said" /\ unit.res.st = "ok"
  /\ LET read == UObjectProperty_from_string(unit.res.out, 0, 2)
     IN  /\ read.st # "beyond"
         /\ unit' = [st |-> "read", arg |-> unit.arg, res |-> unit.res, back |-> read]
  /\ UNCHANGED <<pc, origin, mem, file, dec, enc, text, parsed, enc2>>

\* UObjectProperty::to_string of the property from_string returned, after the
\* indent its caller writes.
SayParsedProperty ==
  /\ pc = "unit" /\ unit.st = "read"
  /\ unit.back.st = "ok" /\ unit.back.v # <<>>
  /\ LET again == After(Spaces(2), UObjectProperty_to_string(unit.back.v[1], 2))
     IN  /\ again.st # "beyond"
         /\ unit' = [st |-> "again", arg |-> unit.arg, res |-> unit.res,
                     back |-> unit.back, again |-> again]
  /\ UNCHANGED <<pc, origin, mem, file, dec, enc, text, parsed, enc2>>

\* IoUObject::to_string of the document IoUObject::from_string returned.
SayParsedDocument ==
  /\ pc = "parsed" /\ parsed.st = "ok"
  /\ LET again == IoUObject_to_string(parsed.v)
     IN  /\ again.st # "beyond"
         /\ unit' = [st |-> "docagain", again |-> again]
  /\ pc' = "unit"
  /\ UNCHANGED <<origin, mem, file, dec, enc, text, parsed, enc2>>

\* The property loop of IoUObject::from_string on a text that ends early.  The
\* text is no text of the document in memory, so the cuts are taken beside
\* one document only.
ParseCutText ==
  /\ pc = "mem" /\ mem = DocScalars
  /\ \E h \in CutTexts : \E n \in 0..Len(h) :
       LET read == PropsFromString(SubSeq(h, 1, n), 0, 2)
       IN  /\ read.st # "beyond"
           /\ unit' = [st |-> "cut", text |-> SubSeq(h, 1, n), back |-> read]
  /\ pc' = "unit"
  /\ UNCHANGED <<origin, mem, file, dec, enc, text, parsed, enc2>>

\* UObjectProperty::from_string of a text written by hand.
ParseHandText ==
  /\ pc = "mem"
  /\ \E h \in HandTexts :
       LET read == UObjectProperty_from_string(h, 0, 2)
       IN  /\ read.st # "beyond"
           /\ unit' = [st |-> "hand", text |-> h, back |-> read]
  /\ pc' = "unit"
  /\ UNCHANGED <<origin, mem, file, dec, enc, text, parsed, enc2>>

\* One call of IoUObject::to_bytes on the document in memory, whatever it returns.
EncodeDocument ==
  /\ pc = "mem"
  /\ unit' = [st |-> "doc", arg |-> mem, res |-> IoUObject_to_bytes(mem)]
  /\ pc' = "unit"
  /\ UNCHANGED <<origin, mem, file, dec, enc, text, parsed, enc2>>

Next ==
  \/ WriteFile
  \/ ForeignByte
  \/ ForeignCut
  \/ FromBuffer
  \/ ToBytes
  \/ DocToString
  \/ DocFromString
  \/ ToBytesOfParsed
  \/ EncodeData
  \/ EncodeProperty
  \/ DecodeData
  \/ DecodeProperty
  \/ SayProperty
  \/ ParseProperty
  \/ ParseHandText
  \/ EncodeDocument
  \/ SayParsedProperty
  \/ SayParsedDocument
  \/ ParseCutText

Spec == Init /\ [][Next]_vars

(***************************************************************************)
(* main.rs: the encode and decode commands.  A second state machine: the   *)
(* state is the arguments of one run (unit), the content of the input file *)
(* (file) and, after execute, the path of the file it created and what was *)
(* decoded or parsed and written to it.  Paths are those of a system whose *)
(* separator is '/'.                                                       *)
(***************************************************************************)
MAIN_SEPARATOR_STR == <<47>>

\* str::rsplit_once at a character: [found, before, after], split at its last place.
RSplitOnce(s, c) ==
  IF \A i \in 1..Len(s) : s[i] # c THEN [found |-> FALSE, before |-> <<>>, after |-> <<>>]
  ELSE LET i == CHOOSE k \in 1..Len(s) : s[k] = c /\ \A j \in (k + 1)..Len(s) : s[j] # c
       IN  [found |-> TRUE, before |-> SubSeq(s, 1, i - 1), after |-> SubSeq(s, i + 1, Len(s))]

\* infilename: what follows the last separator of inpath, or inpath.
infilename(inpath) ==
  IF RSplitOnce(inpath, MAIN_SEPARATOR_STR[1]).found
  THEN RSplitOnce(inpath, MAIN_SEPARATOR_STR[1]).after
  ELSE inpath

\* outfilename: infilename up to its last '.', or infilename.
outfilename(inpath) ==
  IF RSplitOnce(infilename(inpath), 46).found
  THEN RSplitOnce(infilename(inpath), 46).before
  ELSE infilename(inpath)

ExtUasset == <<46, 117, 97, 115, 115, 101, 116>>          \* ".uasset"
ExtYaml == <<46, 121, 97, 109, 108, 95, 117, 97, 115, 115, 101, 116>>   \* ".yaml_uasset"

\* The path File::create is called with: outpath when given, else outfilename
\* and the extension of the command.
CreatedPath(command, inpath, outpath) ==
  IF outpath # <<>> THEN outpath[1]
  ELSE outfilename(inpath) \o (IF command = "encode" THEN ExtUasset ELSE ExtYaml)

\* The directories and the file names the input paths are made of.
InDirs ==
  {<<>>, <<97, 47>>, <<97, 47, 98, 46, 99, 47>>, <<47>>}

InNames ==
  {<<102, 46, 117, 97, 115, 115, 101, 116>>,
   <<102, 46, 121, 97, 109, 108, 95, 117, 97, 115, 115, 101, 116>>,
   <<102>>,
   <<102, 46, 103, 46, 117, 97, 115, 115, 101, 116>>,
   <<46, 102>>}

\* The output path arguments: none, or "o/p.x".
OutPaths == {<<>>, <<<<111, 47, 112, 46, 120>>>>}

\* The documents the input files hold.
CmdDocuments == {DocScalars, DocIntArray}

InitCmd ==
  /\ mem \in CmdDocuments
  /\ pc = "args"
  /\ origin = "none"
  /\ \E command \in {"encode", "decode"}, d \in InDirs, n \in InNames, o \in OutPaths :
       /\ unit = [st |-> "args", command |-> command, inpath |-> d \o n, outpath |-> o]
       /\ file = IF command = "decode" THEN IoUObject_to_bytes(mem).out
                 ELSE IoUObject_to_string(mem).out
  /\ dec = Nothing
  /\ enc = Nothing
  /\ text = Nothing
  /\ parsed = Nothing
  /\ enc2 = Nothing

\* execute, Command::Encode: the output file is created, the input is parsed
\* and the bytes are written.
ExecuteEncode ==
  /\ pc = "args" /\ unit.command = "encode"
  /\ unit' = [st |-> "ran", command |-> unit.command, inpath |-> unit.inpath,
              outpath |-> unit.outpath,
              warned |-> ~EndsWith(unit.inpath, ExtYaml),
              created |-> CreatedPath(unit.command, unit.inpath, unit.outpath)]
  /\ parsed' = IoUObject_from_string(file)
  /\ enc2' = IF parsed'.st = "ok" THEN IoUObject_to_bytes(parsed'.v) ELSE Nothing
  /\ pc' = "ran"
  /\ UNCHANGED <<origin, mem, file, dec, enc, text>>

\* execute, Command::Decode: the output file is created, the input is decoded
\* and the text is written.
ExecuteDecode ==
  /\ pc = "args" /\ unit.command = "decode"
  /\ unit' = [st |-> "ran", command |-> unit.command, inpath |-> unit.inpath,
              outpath |-> unit.outpath,
              warned |-> ~EndsWith(unit.inpath, ExtUasset),
              created |-> CreatedPath(unit.command, unit.inpath, unit.outpath)]
  /\ dec' = IoUObject_from_buffer(file)
  /\ text' = IF dec'.st = "ok" THEN IoUObject_to_string(dec'.v) ELSE Nothing
  /\ pc' = "ran"
  /\ UNCHANGED <<origin, mem, file, enc, parsed, enc2>>

NextCmd ==
  \/ ExecuteEncode
  \/ ExecuteDecode

SpecCmd == InitCmd /\ [][NextCmd]_vars

(***************************************************************************)
(* Well-formed documents.                                                  *)
(***************************************************************************)
Range(f) == {f[i] : i \in DOMAIN f}

\* The metadata variant UObjectPropertyMetadata::from_buffer returns for a type name.
MetaKindOf(type) ==
  IF type = sArrayProperty THEN "Array"
  ELSE IF type = sBoolProperty THEN "Bool"
  ELSE IF type = sByteProperty THEN "Byte"
  ELSE IF type = sEnumProperty THEN "Enum"
  ELSE IF type = sMapProperty THEN "Map"
  ELSE IF type = sStructProperty THEN "Struct"
  ELSE "None"

\* The data variants UObjectPropertyData::from_buffer returns for a type name.
DataKindsOf(type) ==
  IF type = sArrayProperty THEN {"Array"}
  ELSE IF type = sBoolProperty THEN {"Bool"}
  ELSE IF type = sByteProperty THEN {"Byte"}
  ELSE IF type = sEnumProperty THEN {"Enum"}
  ELSE IF type = sStructProperty THEN {"Struct"}
  ELSE IF type = sFloatProperty THEN {"Float"}
  ELSE IF type = sStrProperty THEN {"String", "StringUtf16"}
  ELSE IF type = sMapProperty THEN {"Map"}
  ELSE IF type = sNameProperty THEN {"Name"}
  ELSE IF type = sUInt16Property THEN {"UInt16"}
  ELSE IF type = sUInt32Property THEN {"UInt32"}
  ELSE IF type = sIntProperty THEN {"Int"}
  ELSE {}

\* The strings a metadata value refers to by index.
MetaNames(metadata) ==
  IF metadata.m = "Array" THEN {metadata.item}
  ELSE IF metadata.m = "Enum" THEN {metadata.s}
  ELSE IF metadata.m = "Map" THEN {metadata.key, metadata.val}
  ELSE {}

\* The strings a data value itself refers to by index.
DataNames(d) ==
  IF d.k \in {"Enum", "Name"} THEN {d.s}
  ELSE IF d.k = "Array" /\ d.schema # <<>>
  THEN {d.schema[1].hdr.name, d.schema[1].hdr.type, d.schema[1].an}
  ELSE {}

\* Every string the encoder looks up is in the name table, None included.
NamesInTable(doc) ==
  /\ sNone \in Range(doc.summary.name_map)
  /\ \A q \in AllProps(doc) :
       {q.header.name, q.header.type} \cup MetaNames(q.metadata) \subseteq Range(doc.summary.name_map)
  /\ \A t \in AllData(doc) : DataNames(t.d) \subseteq Range(doc.summary.name_map)

\* Every data value is of the variant of its type name, every container's
\* metadata is of the container's kind, a struct array and only a struct array
\* carries an item schema, and every property's metadata is of its type's kind.
VariantsPaired(doc) ==
  /\ \A q \in AllProps(doc) :
       /\ q.metadata.m = MetaKindOf(q.header.type)
       /\ q.metadata.m = "Struct" => Len(q.metadata.data) = 25
  /\ \A t \in AllData(doc) :
       /\ t.d.k \in DataKindsOf(t.type)
       /\ t.d.k = "Array" =>
            /\ t.metadata.m = "Array"
            /\ (t.d.schema # <<>>) <=> (t.metadata.item = sStructProperty)
       /\ t.d.k = "Map" => t.metadata.m = "Map"

\* name_map_hashes_size and graph_data_offset + graph_data_size are what
\* UObjectSummary::from_buffer needs them to be for this name table and tail.
SummaryAgrees(doc) ==
  LET s == doc.summary
      names_len == SumSeq([i \in 1..Len(s.name_map) |-> Len(s.name_map[i]) + 2])
  IN  /\ U32Val(s.header.name_map_hashes_size) = 8 * (Len(s.name_map) + 1)
      /\ U32Val(s.header.graph_data_offset) + U32Val(s.header.graph_data_size)
           = 64 + 1 + names_len + Len(s.remaining_bytes)

\* Well-formed in the words of claim C4.
WellFormedAsStated(doc) == NamesInTable(doc) /\ VariantsPaired(doc) /\ SummaryAgrees(doc)

\* No property and no item schema carries the name that ends a stream.
NoNoneNamed(doc) ==
  /\ \A q \in AllProps(doc) : q.header.name # sNone
  /\ \A t \in AllData(doc) :
       (t.d.k = "Array" /\ t.d.schema # <<>>) => t.d.schema[1].hdr.name # sNone

\* Every arr_index fits the 4 bytes it is written in.
IndexFits(doc) ==
  /\ \A q \in AllProps(doc) : SubSeq(q.header.arr_index, 5, 8) = Zeros(4)
  /\ \A t \in AllData(doc) :
       (t.d.k = "Array" /\ t.d.schema # <<>>)
         => SubSeq(t.d.schema[1].hdr.arr_index, 5, 8) = Zeros(4)

WellFormed(doc) == WellFormedAsStated(doc) /\ NoNoneNamed(doc) /\ IndexFits(doc)

\* What test::assert_equality asserts of two documents.
assert_equality(a, b) ==
  /\ a.summary.header = b.summary.header
  /\ a.summary.name_map = b.summary.name_map
  /\ a.summary.remaining_bytes = b.summary.remaining_bytes
  /\ Len(a.properties) = Len(b.properties)
  /\ \A i \in 1..Len(a.properties) :
       /\ i <= Len(b.properties)
       /\ a.properties[i].header.name = b.properties[i].header.name
       /\ a.properties[i].header.arr_index = b.properties[i].header.arr_index
       /\ a.properties[i].data = b.properties[i].data

DeclaredSize(out) == U32Val(SubSeq(out, 17, 20))

\* The payload bytes of the property the unit operation encoded.
PayloadOf(q) == UObjectPropertyData_to_bytes(q.data, mem.summary.name_map).out

RECURSIVE MapExcess(_)
\* 4 for a Map, and for every Map that is a key or a value of one, and so on.
MapExcess(d) ==
  IF d.k # "Map" THEN 0
  ELSE 4 + SumSeq([i \in 1..Len(d.pairs) |-> MapExcess(d.pairs[i][1]) + MapExcess(d.pairs[i][2])])

\* No property named None, and no item schema named None, at or below q.
NoNoneBelow(q) ==
  /\ \A r \in PropsIn(<<q>>) : r.header.name # sNone
  /\ \A t \in DataIn(q.data, q.header.type, q.metadata) :
       (t.d.k = "Array" /\ t.d.schema # <<>>) => t.d.schema[1].hdr.name # sNone

\* C5 as stated: for every property the encoder writes with a header, of every
\* kind and at every depth, the data_size of the header is the number of payload
\* bytes the data encoder emits for it.
C5_AsStated ==
  (unit.st = "prop" /\ unit.res.st = "ok" /\ unit.arg.header.name # sNone)
    => DeclaredSize(unit.res.out) = Len(PayloadOf(unit.arg))

\* C5, amended: for every property written with a header that has no property
\* and no item schema named None at or below it (every property of a decoded
\* tree), data_size is the number of payload bytes the data encoder emits, plus 4
\* for a Map payload and 4 more for every Map nested in it as a key or a value;
\* the metadata bytes are not counted.
C5_DataSize ==
  (unit.st = "prop" /\ unit.res.st = "ok" /\ NoNoneBelow(unit.arg))
    => /\ DeclaredSize(unit.res.out) = Len(PayloadOf(unit.arg)) + MapExcess(unit.arg.data)
       /\ Len(unit.res.out)
            = byte_len
              + Len(UObjectPropertyMetadata_to_bytes(unit.arg.metadata, mem.summary.name_map).out)
              + Len(PayloadOf(unit.arg))

\* A Map property with pairs, and a struct property at depth, have been written.
C5_Witness ==
  /\ unit.st = "prop" /\ unit.res.st = "ok" /\ NoNoneBelow(unit.arg)
  /\ unit.arg.data.k = "Map" /\ Len(unit.arg.data.pairs) = 2
  /\ DeclaredSize(unit.res.out) = Len(PayloadOf(unit.arg)) + 4

(***************************************************************************)
(* C7                                                                      *)
(***************************************************************************)
\* The unit operation encoded a data value of this kind.
Encoded(kind) == unit.st \in {"data", "back"} /\ unit.arg.d.k = kind

EncodeOf(d) == UObjectPropertyData_to_bytes(d, mem.summary.name_map)

\* C7: a Map of N pairs is written as the 4-byte count N and then, pair by pair
\* in sequence order, the key's bytes followed by the value's bytes; a key of
\* type ByteProperty takes 1 byte; and the size reported is 8 plus the sizes the
\* key and value encoders report.
C7_MapLayout ==
  Encoded("Map") =>
    LET pairs == unit.arg.d.pairs
    IN  /\ unit.res.st = "ok"
        /\ unit.res.out
             = U32LE(Len(pairs))
               \o Flatten([i \in 1..Len(pairs) |->
                             EncodeOf(pairs[i][1]).out \o EncodeOf(pairs[i][2]).out])
        /\ unit.res.n
             = 8 + SumSeq([i \in 1..Len(pairs) |->
                             EncodeOf(pairs[i][1]).n + EncodeOf(pairs[i][2]).n])
        /\ \A i \in 1..Len(pairs) :
             (unit.arg.metadata.m = "Map" /\ unit.arg.metadata.key = sByteProperty)
               => (pairs[i][1].k = "Byte" /\ EncodeOf(pairs[i][1]).out = <<pairs[i][1].n>>)

\* A Map with two pairs keyed by ByteProperty has been written.
C7_Witness ==
  /\ Encoded("Map") /\ unit.res.st = "ok"
  /\ Len(unit.arg.d.pairs) = 2
  /\ unit.arg.metadata.key = sByteProperty
  /\ unit.res.n = 8 + 2 * (1 + 4)

(***************************************************************************)
(* C8                                                                      *)
(***************************************************************************)
\* header + metadata + data of a property, as UObjectProperty::to_bytes counts them.
FullLen(q) ==
  byte_len + Len(UObjectPropertyMetadata_to_bytes(q.metadata, mem.summary.name_map).out)
  + Len(PayloadOf(q))

\* C8 as stated: for every Struct, a child named None included, the size the
\* encoder reports is the sum of the children's full lengths plus 8, and is the
\* number of bytes it wrote.
C8_AsStated ==
  Encoded("Struct") =>
    LET props == unit.arg.d.props
    IN  /\ unit.res.st = "ok"
        /\ unit.res.n = SumSeq([i \in 1..Len(props) |-> FullLen(props[i])]) + 8
        /\ unit.res.n = Len(unit.res.out)

\* A Struct with a child named None was written: 16 bytes fewer than reported.
C8_NoneChild ==
  /\ Encoded("Struct") /\ unit.res.st = "ok"
  /\ \E i \in 1..Len(unit.arg.d.props) : unit.arg.d.props[i].header.name = sNone
  /\ unit.res.n = Len(unit.res.out) + 16

(***************************************************************************)
(* C9                                                                      *)
(***************************************************************************)
\* C9 as stated: an Array of N items is written as the 4-byte count N, then for
\* a struct array a 24-byte item header, the 8-byte array-name index and 17
\* bytes, then the items' payloads; the size reported is 4 + (49) + the items'
\* payload bytes, and is the number of bytes written.
C9_AsStated ==
  Encoded("Array") =>
    LET items == unit.arg.d.items
        data == Flatten([i \in 1..Len(items) |-> EncodeOf(items[i]).out])
        lead == IF unit.arg.d.schema = <<>> THEN 0 ELSE 24 + 8 + 17
    IN  /\ unit.res.st = "ok"
        /\ SubSeq(unit.res.out, 1, 4) = U32LE(Len(items))
        /\ Len(unit.res.out) = 4 + lead + Len(data)
        /\ SubSeq(unit.res.out, 4 + lead + 1, Len(unit.res.out)) = data
        /\ unit.res.n = 4 + lead + Len(data)
        /\ unit.res.n = Len(unit.res.out)

\* A struct array whose item schema is named None was written: 16 bytes fewer than reported.
C9_NoneSchema ==
  /\ Encoded("Array") /\ unit.res.st = "ok"
  /\ unit.arg.d.schema # <<>> /\ unit.arg.d.schema[1].hdr.name = sNone
  /\ unit.res.n = Len(unit.res.out) + 16

(***************************************************************************)
(* C10                                                                     *)
(***************************************************************************)
\* C10: a non-empty Str is written as L = bytes + 1 > 0, its bytes and one zero
\* byte; the empty Str as L = 0 alone, size 4; a Utf16Str as L = -(units + 1) < 0,
\* its UTF-16 units and one zero unit; and from_buffer of those bytes, as a
\* StrProperty, returns the same variant and text and consumes all of them.
C10_StrLayout ==
  /\ Encoded("String") =>
       LET s == unit.arg.d.s
           out == unit.res.out
           L == I32Val(SubSeq(out, 1, 4))
       IN  /\ unit.res.st = "ok"
           /\ unit.res.n = Len(out)
           /\ IF s = <<>> THEN L = 0 /\ Len(out) = 4
              ELSE /\ L > 0
                   /\ L - 1 = Len(s)
                   /\ Len(out) = 4 + L
                   /\ SubSeq(out, 5, 4 + L - 1) = s
                   /\ out[4 + L] = 0
  /\ Encoded("StringUtf16") =>
       LET units == EncodeUtf16(unit.arg.d.s)
           out == unit.res.out
           L == I32Val(SubSeq(out, 1, 4))
       IN  /\ unit.res.st = "ok"
           /\ unit.res.n = Len(out)
           /\ L < 0
           /\ (-L) - 1 = Len(units)
           /\ Len(out) = 4 + 2 * (-L)
           /\ \A i \in 1..Len(units) : SubSeq(out, 4 + 2 * i - 1, 4 + 2 * i) = U16LE(units[i])
           /\ SubSeq(out, Len(out) - 1, Len(out)) = <<0, 0>>
  /\ (unit.st = "back" /\ unit.arg.d.k \in {"String", "StringUtf16"}) =>
       /\ unit.back.st = "ok"
       /\ unit.back.v = unit.arg.d
       /\ unit.back.p = Len(unit.res.out)

\* A Utf16Str with a character outside the BMP, hence two units, was written and read back.
C10_Witness ==
  /\ unit.st = "back" /\ unit.arg.d.k = "StringUtf16"
  /\ Len(unit.arg.d.s) = 4 /\ Len(unit.res.out) = 4 + 2 * 3
  /\ unit.back.st = "ok"

(***************************************************************************)
(* C1                                                                      *)
(***************************************************************************)
\* C1 as stated: for every byte sequence from_buffer accepts, to_bytes of the
\* decoded document writes exactly that sequence.
C1_AsStated ==
  (pc = "reencoded" /\ dec.st = "ok") => (enc.st = "ok" /\ enc.out = file)

\* An accepted file that lacks its four trailing bytes comes back four bytes longer.
C1_TrailerAdded ==
  /\ pc = "reencoded" /\ dec.st = "ok" /\ enc.st = "ok"
  /\ Len(enc.out) = Len(file) + 4
  /\ SubSeq(enc.out, 1, Len(file)) = file

\* An accepted file with a byte of padding set comes back with the byte cleared.
C1_PaddingCleared ==
  /\ pc = "reencoded" /\ dec.st = "ok" /\ enc.st = "ok"
  /\ Len(enc.out) = Len(file)
  /\ \E i \in 1..Len(file) : file[i] = 1 /\ enc.out[i] = 0

(***************************************************************************)
(* C6                                                                      *)
(***************************************************************************)
\* The offset in the file at which top-level property i of a document starts.
PropStart(doc, i) ==
  Len(UObjectSummary_to_bytes(doc.summary))
  + SumSeq([j \in 1..(i - 1) |->
              Len(UObjectProperty_to_bytes(doc.properties[j], doc.summary.name_map).out)])

\* The offset of the 17 bytes of a top-level struct array that starts at offset at:
\* after its header, its metadata, the count, the item header and the array name.
SchemaBlock(at) == at + byte_len + 9 + 4 + byte_len + 8

\* In the bytes out written for document doc, the 17 bytes of every top-level
\* struct array and the 25 metadata bytes of every top-level struct are those of b.
OpaqueKept(doc, out, b) ==
  \A i \in 1..Len(doc.properties) :
    LET q == doc.properties[i]
        at == PropStart(doc, i)
    IN  /\ (q.data.k = "Array" /\ q.data.schema # <<>>)
             => Slice(out, SchemaBlock(at), 17) = Slice(b, SchemaBlock(at), 17)
        /\ q.metadata.m = "Struct"
             => Slice(out, at + byte_len, 25) = Slice(b, at + byte_len, 25)

\* C6 as stated: decode then encode writes back the 17 bytes after the array
\* name of every struct array, and the 25 metadata bytes of every struct, with
\* the values they had in the file; also after a pass through the text form.
C6_AsStated ==
  /\ (pc = "reencoded" /\ enc.st = "ok") => OpaqueKept(dec.v, enc.out, file)
  /\ (pc = "done" /\ enc2.st = "ok" /\ Len(enc2.out) = Len(file))
       => OpaqueKept(dec.v, enc2.out, file)

\* A struct array whose 17 bytes are not all zero was decoded and written back with zeros.
C6_SchemaZeroed ==
  /\ pc = "reencoded" /\ dec.st = "ok" /\ enc.st = "ok"
  /\ Len(dec.v.properties) = 1
  /\ dec.v.properties[1].data.k = "Array" /\ dec.v.properties[1].data.schema # <<>>
  /\ Slice(file, SchemaBlock(PropStart(dec.v, 1)), 17) # Zeros(17)
  /\ Slice(enc.out, SchemaBlock(PropStart(dec.v, 1)), 17) = Zeros(17)

(***************************************************************************)
(* C2                                                                      *)
(***************************************************************************)
\* C2 as stated: for every file from_buffer accepts, to_string, from_string and
\* to_bytes each succeed in turn and the bytes written at the end are the file:
\* the same length and the same byte at every offset.
C2_AsStated ==
  /\ (pc = "text" /\ dec.st = "ok") => text.st = "ok"
  /\ (pc = "parsed" /\ dec.st = "ok") => parsed.st = "ok"
  /\ (pc = "done" /\ dec.st = "ok") => (enc2.st = "ok" /\ enc2.out = file)

\* A file this encoder wrote went through the text form and came back with the
\* same length and a byte changed.
C2_ByteChanged ==
  /\ pc = "done" /\ origin = "written" /\ dec.st = "ok" /\ enc2.st = "ok"
  /\ Len(enc2.out) = Len(file)
  /\ enc2.out # file

\* The text written for a file this encoder wrote is refused by from_string.
C2_TextRefused ==
  /\ pc = "parsed" /\ origin = "written" /\ dec.st = "ok"
  /\ parsed.st # "ok"

(***************************************************************************)
(* C3                                                                      *)
(***************************************************************************)
\* Structural equality of two documents: summary header, name table, tail, and
\* the properties with their name, arr_index, type, metadata and data.
SameTree(a, b) ==
  /\ a.summary.header = b.summary.header
  /\ a.summary.name_map = b.summary.name_map
  /\ a.summary.remaining_bytes = b.summary.remaining_bytes
  /\ a.properties = b.properties

\* C3 as stated: for every document from_buffer produces, from_string of the
\* text to_string writes succeeds and yields a structurally equal document.
C3_AsStated ==
  /\ (pc = "text" /\ dec.st = "ok") => text.st = "ok"
  /\ (pc = "parsed" /\ dec.st = "ok") => (parsed.st = "ok" /\ SameTree(parsed.v, dec.v))

\* from_string accepted the text of a decoded document and returned another document.
C3_TreeChanged ==
  /\ pc = "parsed" /\ dec.st = "ok" /\ parsed.st = "ok"
  /\ ~SameTree(parsed.v, dec.v)

\* The text of a decoded document with an empty array or map is refused.
C3_EmptyRefused ==
  /\ pc = "parsed" /\ dec.st = "ok" /\ parsed.st = "err"
  /\ \E t \in AllData(dec.v) :
       \/ t.d.k = "Array" /\ t.d.items = <<>>
       \/ t.d.k = "Map" /\ t.d.pairs = <<>>

(***************************************************************************)
(* C11                                                                     *)
(***************************************************************************)
\* The smallest index at which a name table holds a string, counted from 0.
FirstIndex(name_map, name) ==
  CHOOSE i \in 0..(Len(name_map) - 1) :
    name_map[i + 1] = name /\ \A j \in 0..(i - 1) : name_map[j + 1] # name

\* One call of UObjectProperty::to_bytes on a property named None has returned.
NoneWritten ==
  /\ unit.st \in {"prop", "propback"} /\ unit.res.st = "ok"
  /\ unit.arg.header.name = sNone

\* C11: a property named None is written as the 8-byte index of None and
\* nothing else, no metadata and no data; and from_buffer of a header whose
\* name index resolves to None consumes those 8 bytes and no more (it returns
\* no property from a buffer that holds nothing after them), for a property as
\* for the None that ends the top-level stream of a file.
C11_NoneEndsStream ==
  /\ NoneWritten
       => unit.res.out = U64LE(FirstIndex(mem.summary.name_map, sNone))
  /\ (NoneWritten /\ unit.st = "propback")
       => unit.back = Ok(<<>>, 8)
  /\ (pc = "decoded" /\ dec.st = "ok")
       => /\ dec.p >= 8
          /\ dec.v.summary.name_map[U64Val(Slice(file, dec.p - 8, 8)) + 1] = sNone
          /\ IoUObject_from_buffer(SubSeq(file, 1, dec.p)) = dec

\* A property named None that carries metadata and data was written as 8 bytes
\* and these 8 bytes were read back as the end of a stream.
C11_Witness ==
  /\ NoneWritten /\ unit.st = "propback"
  /\ unit.arg.data.k = "Int" /\ unit.arg.metadata = MetaNone
  /\ Len(unit.res.out) = 8
  /\ unit.back.st = "ok" /\ unit.back.v = <<>> /\ unit.back.p = 8

(***************************************************************************)
(* C12                                                                     *)
(***************************************************************************)
\* The summary bytes, every top-level property in sequence order, the 8-byte
\* index of None, four zero bytes.
DocLayout(doc) ==
  UObjectSummary_to_bytes(doc.summary)
  \o Flatten([i \in 1..Len(doc.properties) |->
                UObjectProperty_to_bytes(doc.properties[i], doc.summary.name_map).out])
  \o U64LE(FirstIndex(doc.summary.name_map, sNone))
  \o <<0, 0, 0, 0>>

\* C12: what IoUObject::to_bytes writes is the summary bytes, every top-level
\* property in sequence order, one 8-byte index of None and four zero bytes,
\* and nothing else; the length it returns is the number of bytes written.
\* For a document in memory, a decoded document and a parsed document.
C12_DocLayout ==
  /\ (pc = "file" /\ origin = "written") => file = DocLayout(mem)
  /\ (pc = "reencoded" /\ enc.st = "ok")
       => (enc.out = DocLayout(dec.v) /\ enc.n = Len(enc.out))
  /\ (pc = "done" /\ enc2.st = "ok")
       => (enc2.out = DocLayout(parsed.v) /\ enc2.n = Len(enc2.out))

\* A decoded document with several top-level properties was written: its last
\* twelve bytes are the index of None and four zeros.
C12_Witness ==
  /\ pc = "reencoded" /\ enc.st = "ok"
  /\ Len(dec.v.properties) >= 3
  /\ enc.n = Len(enc.out)
  /\ SubSeq(enc.out, Len(enc.out) - 11, Len(enc.out)) = <<0, 0, 0, 0, 0, 0, 0, 0, 0, 0, 0, 0>>

(***************************************************************************)
(* C13                                                                     *)
(***************************************************************************)
\* C13 as stated: when from_buffer succeeds on a file this encoder wrote, the
\* reader has consumed the whole file: four bytes past the index of None that
\* ends the top-level properties.
C13_AsStated ==
  (pc = "decoded" /\ origin = "written" /\ dec.st = "ok") => dec.p = Len(file)

\* from_buffer succeeded on a file this encoder wrote and left the reader at
\* the four trailing bytes, right after the index of None.
C13_TrailerUnread ==
  /\ pc = "decoded" /\ origin = "written" /\ dec.st = "ok"
  /\ dec.p = Len(file) - 4
  /\ dec.v.summary.name_map[U64Val(Slice(file, dec.p - 8, 8)) + 1] = sNone

(***************************************************************************)
(* C14                                                                     *)
(***************************************************************************)
\* The property lists a decoder has returned: IoUObject::from_buffer,
\* IoUObject::from_string, UObjectProperty::from_buffer and
\* UObjectProperty::from_string.
TreesOfBinary ==
  (IF pc \in {"decoded", "reencoded"} /\ dec.st = "ok" THEN {dec.v.properties} ELSE {})
  \cup (IF unit.st = "propback" /\ unit.back.st = "ok" THEN {unit.back.v} ELSE {})

TreesOfText ==
  (IF pc = "done" /\ parsed.st = "ok" THEN {parsed.v.properties} ELSE {})
  \cup (IF unit.st \in {"read", "hand"} /\ unit.back.st = "ok" THEN {unit.back.v} ELSE {})

\* Every data value of a property list, with the metadata it stands under.
DataOfTree(props) ==
  UNION {DataIn(q.data, q.header.type, q.metadata) : q \in PropsIn(props)}

\* The items of an array are of the declared item type.
ItemsAgree(t) ==
  \A i \in 1..Len(t.d.items) : get_string_type(t.d.items[i]) = t.metadata.item

\* The keys and the values of a map are of the declared key and value types.
SetsAgree(t) ==
  \A i \in 1..Len(t.d.pairs) :
    /\ get_string_type(t.d.pairs[i][1]) = t.metadata.key
    /\ get_string_type(t.d.pairs[i][2]) = t.metadata.val

\* A struct array carries its item schema and holds structs only.
SchemaPresent(t) ==
  t.metadata.item = sStructProperty
    => /\ t.d.schema # <<>>
       /\ \A i \in 1..Len(t.d.items) : t.d.items[i].k = "Struct"

\* C14 as stated: in every tree either decoder returns, the items of every
\* array and the keys and values of every map are of the declared types, and
\* an array whose item type is StructProperty carries its item schema (item
\* header and array name) and holds structs only; the text parser never
\* returns a struct array without its item schema.
C14_AsStated ==
  \A props \in TreesOfBinary \cup TreesOfText :
    \A t \in DataOfTree(props) :
      /\ (t.d.k = "Array" /\ t.metadata.m = "Array") => (ItemsAgree(t) /\ SchemaPresent(t))
      /\ (t.d.k = "Map" /\ t.metadata.m = "Map") => SetsAgree(t)

\* UObjectProperty::from_string returned an array of item type StructProperty,
\* of one struct, with no item schema.
C14_SchemaMissing ==
  /\ unit.st = "hand" /\ unit.text = HandNoSchema /\ unit.back.st = "ok"
  /\ unit.back.v[1].metadata = [m |-> "Array", item |-> sStructProperty]
  /\ unit.back.v[1].data.k = "Array"
  /\ unit.back.v[1].data.schema = <<>>
  /\ Len(unit.back.v[1].data.items) = 1

(***************************************************************************)
(* C15                                                                     *)
(***************************************************************************)
\* C15 as stated: the text parser returns no tree in which an array item is
\* not of the declared item_type or a map value is not of the declared
\* val_type; it returns an error for the two hand-written texts with such an
\* item and such a value, and it does not return an error for the texts in
\* which every item and every value is of the declared type.
C15_AsStated ==
  /\ \A props \in TreesOfText :
       \A t \in DataOfTree(props) :
         /\ (t.d.k = "Array" /\ t.metadata.m = "Array") => ItemsAgree(t)
         /\ (t.d.k = "Map" /\ t.metadata.m = "Map")
              => \A i \in 1..Len(t.d.pairs) :
                   get_string_type(t.d.pairs[i][2]) = t.metadata.val
  /\ (unit.st = "hand" /\ unit.text \in {HandItemMismatch, HandValueMismatch})
       => unit.back.st = "err"
  /\ (unit.st = "hand" /\ unit.text \in {HandGoodArray, HandGoodMap})
       => unit.back.st = "ok"

\* UObjectProperty::from_string returned an array declared of IntProperty
\* that holds a Str: item_type was given again after the items were checked.
C15_MismatchReturned ==
  /\ unit.st = "hand" /\ unit.text = HandTypeAgain /\ unit.back.st = "ok"
  /\ unit.back.v[1].metadata = [m |-> "Array", item |-> sIntProperty]
  /\ unit.back.v[1].data.items = <<[k |-> "String", s |-> <<120>>]>>

(***************************************************************************)
(* C16                                                                     *)
(***************************************************************************)
\* The strings one property refers to by index, its own and those of its data.
NamesOfProperty(q) ==
  {q.header.name, q.header.type} \cup MetaNames(q.metadata) \cup DataNames(q.data)

\* C16 as stated: encoding a tree that refers to a string the name table does
\* not hold returns an error to the caller, for IoUObject::to_bytes as for
\* the property and the data value the string is in; it does not abort.
C16_AsStated ==
  /\ (unit.st = "doc" /\ ~NamesInTable(unit.arg)) => unit.res.st # "panic"
  /\ (unit.st = "prop" /\ ~(NamesOfProperty(unit.arg) \subseteq Range(mem.summary.name_map)))
       => unit.res.st # "panic"
  /\ (unit.st = "data" /\ ~(DataNames(unit.arg.d) \subseteq Range(mem.summary.name_map)))
       => unit.res.st # "panic"
  /\ (pc = "done" /\ ~NamesInTable(parsed.v)) => enc2.st # "panic"

\* IoUObject::to_bytes aborted on a document whose first property has a name
\* the table does not hold.
C16_Aborted ==
  /\ unit.st = "doc" /\ unit.res.st = "panic"
  /\ unit.arg.properties[1].header.name = nB
  /\ nB \notin Range(unit.arg.summary.name_map)
  /\ sNone \in Range(unit.arg.summary.name_map)

(***************************************************************************)
(* C17                                                                     *)
(***************************************************************************)
\* The file is the start of what IoUObject::to_bytes wrote for the document
\* and ends before the None that ends the top-level properties is complete.
Truncated ==
  /\ origin = "foreign"
  /\ Len(file) < Len(DocLayout(mem)) - 4
  /\ file = SubSeq(DocLayout(mem), 1, Len(file))

\* C17 as stated: IoUObject::from_buffer of an input that ends before the
\* document is complete returns an error value to its caller; it does not
\* abort on a read past the end.
C17_AsStated ==
  (pc = "decoded" /\ Truncated) => dec.st = "err"

\* IoUObject::from_buffer aborted on a file that ends inside the first
\* property, after the whole summary.
C17_AbortedInProperty ==
  /\ pc = "decoded" /\ Truncated
  /\ Len(file) > Len(UObjectSummary_to_bytes(mem.summary))
  /\ dec.st = "panic"

(***************************************************************************)
(* C18                                                                     *)
(***************************************************************************)
\* The 8 bytes after the first off bytes of out are the smallest index at
\* which the name table of the document holds the string.
RefAt(out, off, name) ==
  SubSeq(out, off + 1, off + 8) = U64LE(FirstIndex(mem.summary.name_map, name))

\* The name table as the summary holds it, after the 64 bytes of the summary
\* header and one byte: each entry's length, its bytes, a zero byte.
NameTableOf(bytes, name_map) ==
  SubSeq(bytes, 66, 65 + SumSeq([i \in 1..Len(name_map) |-> Len(name_map[i]) + 2]))
    = Flatten([i \in 1..Len(name_map) |-> <<Len(name_map[i])>> \o name_map[i] \o <<0>>])

\* The name references of a written property: its name, its type, and in its
\* metadata the item type, the enum name, the key and value types.
PropertyRefs(q, out) ==
  /\ RefAt(out, 0, q.header.name)
  /\ q.header.name # sNone =>
       /\ RefAt(out, 8, q.header.type)
       /\ q.metadata.m = "Array" => RefAt(out, byte_len, q.metadata.item)
       /\ q.metadata.m = "Enum" => RefAt(out, byte_len, q.metadata.s)
       /\ q.metadata.m = "Map" => /\ RefAt(out, byte_len, q.metadata.key)
                                  /\ RefAt(out, byte_len + 8, q.metadata.val)

\* The name references of a written data value: an Enum or Name value, the
\* item schema and the array name of a struct array, the None after the
\* properties of a struct.
DataRefs(d, out) ==
  /\ d.k \in {"Enum", "Name"} => RefAt(out, 0, d.s)
  /\ d.k = "Struct" => RefAt(out, Len(out) - 8, sNone)
  /\ (d.k = "Array" /\ d.schema # <<>>) =>
       /\ RefAt(out, 4, d.schema[1].hdr.name)
       /\ IF d.schema[1].hdr.name = sNone
          THEN RefAt(out, 4 + 8, d.schema[1].an)
          ELSE /\ RefAt(out, 4 + 8, d.schema[1].hdr.type)
               /\ RefAt(out, 4 + byte_len, d.schema[1].an)

\* C18: the encoder writes the name table as it is, every entry in its place,
\* duplicates kept (and the decoder reads the same table back); and every
\* name reference it writes is the smallest index whose entry equals the
\* string: the name and type of a property, the names in its metadata, Enum
\* and Name values, the item schema and array name of a struct array, and None.
C18_FirstOccurrence ==
  /\ (pc = "file" /\ origin = "written")
       => /\ NameTableOf(file, mem.summary.name_map)
          /\ RefAt(file, Len(file) - 12, sNone)
  /\ (pc = "decoded" /\ origin = "written" /\ dec.st = "ok")
       => dec.v.summary.name_map = mem.summary.name_map
  /\ (unit.st \in {"prop", "propback"} /\ unit.res.st = "ok")
       => PropertyRefs(unit.arg, unit.res.out)
  /\ (unit.st \in {"data", "back"} /\ unit.res.st = "ok")
       => DataRefs(unit.arg.d, unit.res.out)

\* A property was written whose name and type each stand twice in the name
\* table: the indices written are those of the first places.
C18_Witness ==
  /\ unit.st = "prop" /\ unit.res.st = "ok"
  /\ Len(mem.summary.name_map) >= 6
  /\ mem.summary.name_map[3] = nA /\ mem.summary.name_map[5] = nA
  /\ mem.summary.name_map[4] = sIntProperty /\ mem.summary.name_map[6] = sIntProperty
  /\ unit.arg.header = Hdr(nA, sIntProperty)
  /\ SubSeq(unit.res.out, 1, 16) = <<2, 0, 0, 0, 0, 0, 0, 0, 3, 0, 0, 0, 0, 0, 0, 0>>

(***************************************************************************)
(* C19                                                                     *)
(***************************************************************************)
\* The text is one line: its only newline is its last byte.
OneLine(out) ==
  /\ out # <<>> /\ out[Len(out)] = 10
  /\ \A i \in 1..(Len(out) - 1) : out[i] # 10

\* C19 as stated: for a Str value that is not empty, whatever characters it
\* holds, to_string writes the property on one line and from_string of that
\* line returns a Str with the same text.
C19_AsStated ==
  (unit.st = "read" /\ unit.arg.data.k = "String" /\ unit.arg.data.s # <<>>)
    => /\ OneLine(unit.res.out)
       /\ unit.back.st = "ok"
       /\ unit.back.v[1].data = unit.arg.data

\* The Str of the one character U+00E9 (two bytes) was written on one line
\* and read back with the closing quote as a second character.
C19_QuoteKept ==
  /\ unit.st = "read" /\ unit.arg.data = [k |-> "String", s |-> <<195, 169>>]
  /\ OneLine(unit.res.out)
  /\ unit.back.st = "ok"
  /\ unit.back.v[1].data = [k |-> "String", s |-> <<195, 169, 34>>]

(***************************************************************************)
(* C20                                                                     *)
(***************************************************************************)
\* C20 as stated: for a Utf16Str value, the empty one and those with spaces
\* or newlines at their ends included, to_string writes `!utf16 ` and the
\* text on one line, and from_string of that line succeeds and returns a
\* Utf16Str with the same text.
C20_AsStated ==
  (unit.st = "read" /\ unit.arg.data.k = "StringUtf16")
    => /\ OneLine(unit.res.out)
       /\ unit.back.st = "ok"
       /\ unit.back.v[1].data = unit.arg.data

\* The empty Utf16Str was written as `!utf16 ` with nothing after it, and
\* from_string of that line returned an error.
C20_EmptyRefused ==
  /\ unit.st = "read" /\ unit.arg.data = [k |-> "StringUtf16", s |-> <<>>]
  /\ OneLine(unit.res.out)
  /\ SubSeq(unit.res.out, Len(unit.res.out) - 7, Len(unit.res.out))
       = <<33, 117, 116, 102, 49, 54, 32, 10>>
  /\ unit.back.st = "err"

(***************************************************************************)
(* C21                                                                     *)
(***************************************************************************)
\* Some property of the document has a type name that is none of the twelve
\* the decoder has an arm for.
HasUnhandled(doc) == \E q \in AllProps(doc) : DataKindsOf(q.header.type) = {}

\* C21 as stated: a file this encoder wrote with a property of an unhandled
\* type is decoded with success; to_bytes of the decoded tree, and to_bytes of
\* the tree parsed from its text, write the bytes of the file whenever they
\* write anything.
C21_AsStated ==
  (origin = "written" /\ HasUnhandled(mem))
    => /\ pc = "decoded" => dec.st = "ok"
       /\ (pc = "reencoded" /\ enc.st = "ok") => enc.out = file
       /\ (pc = "done" /\ enc2.st = "ok") => enc2.out = file

\* The property of type TextProperty came back from the text with the type
\* StructProperty, and to_bytes wrote a file of the same length that differs
\* from the source.
C21_TypeRewritten ==
  /\ pc = "done" /\ origin = "written" /\ enc2.st = "ok"
  /\ dec.v.properties[1].header.type = sTextProperty
  /\ parsed.v.properties[1].header.type = sStructProperty
  /\ Len(enc2.out) = Len(file) /\ enc2.out # file

(***************************************************************************)
(* C22                                                                     *)
(***************************************************************************)
\* The 14 fields of a summary header in declared order: two of 8 bytes, twelve
\* of 4 bytes.
FieldsInOrder(out, h) ==
  /\ SubSeq(out, 1, 8) = h.name
  /\ SubSeq(out, 9, 16) = h.source_name
  /\ SubSeq(out, 17, 20) = h.package_flags
  /\ SubSeq(out, 21, 24) = h.cooked_header_size
  /\ SubSeq(out, 25, 28) = h.name_map_names_offset
  /\ SubSeq(out, 29, 32) = h.name_map_names_size
  /\ SubSeq(out, 33, 36) = h.name_map_hashes_offset
  /\ SubSeq(out, 37, 40) = h.name_map_hashes_size
  /\ SubSeq(out, 41, 44) = h.import_map_offset
  /\ SubSeq(out, 45, 48) = h.export_map_offset
  /\ SubSeq(out, 49, 52) = h.export_bundles_offset
  /\ SubSeq(out, 53, 56) = h.graph_data_offset
  /\ SubSeq(out, 57, 60) = h.graph_data_size
  /\ SubSeq(out, 61, 64) = h.pad

\* C22: UObjectSummaryHeader::to_bytes writes a block of exactly 64 bytes, the
\* 14 fields in declared order, at the start of the file; for a header that
\* from_buffer read, the first 60 bytes are those of the input and the last 4
\* (pad) are zero whatever the input held there.
C22_HeaderLayout ==
  /\ (pc = "file" /\ origin = "written")
       => /\ Len(UObjectSummaryHeader_to_bytes(mem.summary.header)) = 64
          /\ FieldsInOrder(file, mem.summary.header)
  /\ (pc = "reencoded" /\ enc.st = "ok")
       => /\ Len(UObjectSummaryHeader_to_bytes(dec.v.summary.header)) = 64
          /\ SubSeq(enc.out, 1, 64) = UObjectSummaryHeader_to_bytes(dec.v.summary.header)
          /\ FieldsInOrder(enc.out, dec.v.summary.header)
          /\ SubSeq(enc.out, 1, 60) = SubSeq(file, 1, 60)
          /\ SubSeq(enc.out, 61, 64) = <<0, 0, 0, 0>>

\* A file whose pad bytes are not zero was decoded and written again with the
\* pad zero.
C22_Witness ==
  /\ pc = "reencoded" /\ enc.st = "ok" /\ origin = "foreign"
  /\ SubSeq(file, 61, 64) # <<0, 0, 0, 0>>
  /\ SubSeq(enc.out, 61, 64) = <<0, 0, 0, 0>>
  /\ SubSeq(enc.out, 1, 60) = SubSeq(file, 1, 60)

\* C22 as stated: the block the summary header encoder writes is exactly 60
\* bytes long.
C22_AsStated ==
  (pc = "reencoded" /\ enc.st = "ok")
    => Len(UObjectSummaryHeader_to_bytes(dec.v.summary.header)) = 60

(***************************************************************************)
(* C23                                                                     *)
(***************************************************************************)
\* What Display writes for a summary: the base64 of its bytes.
SummaryToken(summary) == Base64Encode(UObjectSummary_to_bytes(summary))

\* The token is one word, and what from_string returned for it is the summary.
TokenReadBack(summary, token, back) ==
  /\ \A i \in 1..Len(token) : token[i] \notin {32, 10, 13, 9}
  /\ back.st = "ok"
  /\ back.v = summary

\* The first line of the text is `summary: `, the token, a newline.
TokenOnFirstLine(t, token) ==
  ReadLine(t, 0).line = <<115, 117, 109, 109, 97, 114, 121, 58, 32>> \o token \o <<10>>

\* The summary with its token.
TokenOfDecoded(summary, token) ==
  TokenReadBack(summary, token, UObjectSummary_from_string(token))

\* C23: for every summary the binary decoder returns, the text has it as one
\* base64 token (no space, no newline) after `summary: ` on the first line;
\* from_string of that token returns an equal summary, and so does
\* IoUObject::from_string of the text; the summary holds
\* name_map_hashes_size / 8 - 1 names and its bytes end at
\* graph_data_offset + graph_data_size.
C23_SummaryText ==
  /\ (pc = "decoded" /\ dec.st = "ok")
       => /\ TokenOfDecoded(dec.v.summary, SummaryToken(dec.v.summary))
          /\ Len(dec.v.summary.name_map) = names_count(dec.v.summary.header)
          /\ Len(UObjectSummary_to_bytes(dec.v.summary))
               = I32Val(dec.v.summary.header.graph_data_offset)
                 + I32Val(dec.v.summary.header.graph_data_size)
  /\ (pc = "text" /\ text.st = "ok")
       => TokenOnFirstLine(text.out, SummaryToken(dec.v.summary))
  /\ (pc = "parsed" /\ parsed.st = "ok")
       => parsed.v.summary = dec.v.summary

\* A text was parsed whose summary has several names and a tail that is not
\* empty, from a file whose pad bytes are not zero.
C23_Witness ==
  /\ pc = "parsed" /\ parsed.st = "ok"
  /\ parsed.v.summary = dec.v.summary
  /\ Len(dec.v.summary.name_map) >= 4
  /\ dec.v.summary.remaining_bytes # <<>>
  /\ origin = "foreign" /\ SubSeq(file, 61, 64) # <<0, 0, 0, 0>>

(***************************************************************************)
(* C24                                                                     *)
(***************************************************************************)
\* The directory part of a path: what stands before its file name, the last
\* separator included.
DirPart(path) == SubSeq(path, 1, Len(path) - Len(infilename(path)))

\* C24 as stated: a command run without an output path creates the file at
\* the input path with its final extension replaced by .uasset (encode) or
\* .yaml_uasset (decode): the directory part of the input path is kept.
C24_AsStated ==
  (pc = "ran" /\ unit.outpath = <<>>)
    => unit.created
         = DirPart(unit.inpath) \o outfilename(unit.inpath)
           \o (IF unit.command = "encode" THEN ExtUasset ELSE ExtYaml)

\* decode of a/f.uasset with no output path created f.yaml_uasset, a path
\* with no directory part, and wrote the text there.
C24_DirectoryDropped ==
  /\ pc = "ran" /\ unit.command = "decode" /\ unit.outpath = <<>>
  /\ unit.inpath = <<97, 47, 102, 46, 117, 97, 115, 115, 101, 116>>
  /\ unit.created = <<102>> \o ExtYaml
  /\ text.st = "ok"

(***************************************************************************)
(* C25                                                                     *)
(***************************************************************************)
RECURSIVE ShapeOfData(_)
RECURSIVE ShapeOfProps(_)

\* The scopes of a tree: which property, item and entry stands in which
\* struct, array and map, with the names of the properties; values left out.
ShapeOfData(d) ==
  CASE d.k = "Struct" -> [k |-> "Struct", c |-> ShapeOfProps(d.props)]
    [] d.k = "Array" ->
         [k |-> "Array", c |-> [i \in 1..Len(d.items) |-> ShapeOfData(d.items[i])]]
    [] d.k = "Map" ->
         [k |-> "Map", c |-> [i \in 1..Len(d.pairs) |-> ShapeOfData(d.pairs[i][2])]]
    [] OTHER -> [k |-> "Leaf", c |-> <<>>]

ShapeOfProps(props) ==
  [i \in 1..Len(props) |-> [name |-> props[i].header.name, c |-> ShapeOfData(props[i].data)]]

\* from_string of the hand-written text has ended the scope of its container
\* at position n, the first character of the line after it, and a scope that
\* reads on from there reads the property B.
PutBackAt(n) ==
  /\ unit.back.st = "ok" /\ unit.back.p = n
  /\ Len(unit.back.v) = 1 /\ unit.back.v[1].header.name = nA
  /\ UObjectProperty_from_string(unit.text, unit.back.p, 0).st = "ok"
  /\ UObjectProperty_from_string(unit.text, unit.back.p, 0).v[1].header.name = nB

KeysOf(d) == [i \in 1..Len(d.pairs) |-> d.pairs[i][1]]

\* Two property lists have the same maps at the top level: the same pairs in
\* the same order.
SameMaps(a, b) ==
  \A i \in 1..Len(a) :
    a[i].data.k = "Map"
      => /\ i <= Len(b) /\ b[i].data.k = "Map"
         /\ b[i].data.pairs = a[i].data.pairs

C27_AsStated ==
  /\ pc = "text" => text.st # "panic"
  /\ (unit.st = "said" /\ origin = "none"
      /\ IoUObject_from_buffer(IoUObject_to_bytes(mem).out).st = "ok"
      /\ IoUObject_from_buffer(IoUObject_to_bytes(mem).out).v = mem)
       => unit.res.st # "panic"

\* from_buffer returned an array of two Bool items and to_string of the
\* document panicked.
C27_EmitterAborted ==
  /\ pc = "text" /\ origin = "written" /\ text.st = "panic"
  /\ dec.st = "ok" /\ dec.v = mem
  /\ dec.v.properties[1].metadata = [m |-> "Array", item |-> sBoolProperty]
  /\ dec.v.properties[1].data.items = <<[k |-> "Bool"], [k |-> "Bool"]>>

(***************************************************************************)
(* C28                                                                     *)
(***************************************************************************)
\* An Array or a Map of no elements somewhere in a property list.
HasEmpty(props) ==
  \E t \in DataOfTree(props) :
    \/ t.d.k = "Array" /\ t.d.items = <<>>
    \/ t.d.k = "Map" /\ t.d.pairs = <<>>

EmptyBlocks == {HandEmptyArray, HandArrayNoItems, HandEmptyMap, HandEmptyInner}

\* C28: from_string returns an error for a text with an !Array block of no
\* items or a !Map block of no map_data entries, written by hand or emitted
\* from a tree that holds an empty Array or Map; no tree that from_string
\* returns holds an Array or a Map of zero elements.
C28_EmptyRefused ==
  /\ \A props \in TreesOfText : ~HasEmpty(props)
  /\ (pc = "parsed" /\ parsed.st = "ok") => ~HasEmpty(parsed.v.properties)
  /\ (unit.st = "hand" /\ unit.text \in EmptyBlocks) => unit.back.st = "err"
  /\ (pc = "parsed" /\ HasEmpty(dec.v.properties)) => parsed.st = "err"
  /\ (unit.st = "read" /\ HasEmpty(<<unit.arg>>)) => unit.back.st = "err"

\* The text emitted from a decoded document with an empty array was parsed,
\* and the parser returned an error.
C28_Witness ==
  /\ pc = "parsed" /\ dec.st = "ok" /\ text.st = "ok" /\ parsed.st = "err"
  /\ \E i \in 1..Len(dec.v.properties) :
       /\ dec.v.properties[i].data.k = "Array"
       /\ dec.v.properties[i].data.items = <<>>

(***************************************************************************)
(* C29                                                                     *)
(***************************************************************************)
\* C29 as stated: when from_string accepts the text to_string wrote,
\* to_string of the tree it returns writes the same text, character for
\* character: for one property and for a document.
C29_AsStated ==
  /\ unit.st = "again" => (unit.again.st = "ok" /\ unit.again.out = unit.res.out)
  /\ unit.st = "docagain" => (unit.again.st = "ok" /\ unit.again.out = text.out)

\* The Str of the one character U+00E9 was written as "é", read back with
\* the closing quote kept, and written again as "é"".
C29_QuoteWrittenTwice ==
  /\ unit.st = "again" /\ unit.arg.data = [k |-> "String", s |-> <<195, 169>>]
  /\ unit.back.v[1].data = [k |-> "String", s |-> <<195, 169, 34>>]
  /\ unit.again.st = "ok"
  /\ Len(unit.again.out) = Len(unit.res.out) + 1
  /\ SubSeq(unit.again.out, Len(unit.again.out) - 5, Len(unit.again.out))
       = <<34, 195, 169, 34, 34, 10>>

(***************************************************************************)
(* C30                                                                     *)
(***************************************************************************)
\* The positions a line can start at.
LineStarts(t) == {0} \cup {i \in 1..Len(t) : t[i] = 10}

Indents == {0, 2, 4}

NothingYet == [item_type |-> <<>>, item_schema |-> <<>>, array_name |-> <<>>, items |-> <<>>]

NoSetsYet == [key_type |-> <<sIntProperty>>, value_type |-> <<sIntProperty>>, sets |-> <<>>]

\* A read returns a line that lies in what was unread, and a line that is
\* not empty moves the position.
ReadAdvances(t, p, r) ==
  /\ p <= r.p - Len(r.line) /\ r.p <= Len(t)
  /\ Len(r.line) > 0 => r.p > p
  /\ Len(r.line) = 0 => r.p = Len(t)

\* An iteration that read nothing ends its scope: the property loop with
\* Ok(None), the items and the map_data loops with break, the header loops
\* with an error.
EndsAtEnd(t, ind, r) ==
  Len(r.line) = 0 =>
    /\ PropertyOfLine(t, ind, r) = Ok(<<>>, r.p)
    /\ ItemsOfLine(t, ind, r) = Ok(<<>>, r.p)
    /\ SetsOfLine(t, ind, sIntProperty, r) = Ok(<<>>, r.p)
    /\ \A i \in {-1, 0, 1} : ArrayLine(t, ind, i, NothingYet, r).st = "err"
    /\ \A n \in {1, 2, 3} : MapLine(t, ind, n, NoSetsYet, r).st = "err"
    /\ \A n \in {1, 2} : SchemaLine(t, ind, n, <<<<>>, <<>>>>, r).st = "err"

\* A loop that returns has put back the line it stopped at, or has gone on
\* from behind the line it read.
LoopMoves(r, res) ==
  res.st \in {"ok", "err", "panic"}
  /\ (res.st = "ok" =>
        IF res.v = <<>> THEN res.p = r.p - Len(r.line) ELSE res.p >= r.p)

StepsOf(t, p, ind, r) ==
  /\ ReadAdvances(t, p, r)
  /\ EndsAtEnd(t, ind, r)
  /\ LoopMoves(r, PropsParsedAfter(t, ind, PropertyOfLine(t, ind, r)))
  /\ LoopMoves(r, ItemsOfLine(t, ind, r))
  /\ LoopMoves(r, SetsOfLine(t, ind, sIntProperty, r))

\* The parse returned, with the position inside the text and at the start of
\* a line or at the end of the text.
Returned(t, res) ==
  /\ res.st \in {"ok", "err", "panic"}
  /\ res.st = "ok" => (res.p \in LineStarts(t) \cup {Len(t)})

\* C30: from_string returns on every text: on the texts to_string wrote, on
\* texts written by hand, and on texts cut at any length.  From every line
\* start of such a text, a read that returns a line moves the position, an
\* iteration of a loop that read nothing at the end of the text ends its
\* scope, and a loop that returns has put back the one line it stopped at or
\* went on behind the line it read; at the top level a line put back ends
\* the parse.
C30_ParserEnds ==
  /\ unit.st \in {"hand", "cut"} =>
       /\ Returned(unit.text, unit.back)
       /\ \A p \in LineStarts(unit.text) : \A ind \in Indents :
            StepsOf(unit.text, p, ind, next_nonempty_line(unit.text, p))
  /\ unit.st = "read" => Returned(unit.res.out, unit.back)
  /\ pc = "parsed" => Returned(text.out, parsed)

\* The text was cut inside an item of the struct array; the parse read the
\* array up to the end of the text and returned it.
C30_Witness ==
  /\ unit.st = "cut" /\ unit.text # <<>>
  /\ unit.text[Len(unit.text)] # 10
  /\ unit.back.st = "ok" /\ unit.back.p = Len(unit.text)
  /\ Len(unit.back.v) = 1
  /\ unit.back.v[1].data.k = "Array"
  /\ Len(unit.back.v[1].data.items) = 2

====
